---------------------------- MODULE Spec2Model ----------------------------
(***************************************************************************)
(* A model of the sap_odata query layer (src/query.py), of the client     *)
(* that sends its requests (src/client.py: authentication and CSRF token   *)
(* handling, response normalisation, auto-pagination), of the metadata     *)
(* parser (src/metadata.py), and of the explorer's reading of its result   *)
(* (src/explorer.py: value-list parameters, key and required fields).      *)
(*                                                                         *)
(* Text is modelled character by character: a Python str is a sequence of  *)
(* one-character strings, so that quoting, escaping, pattern matching and  *)
(* URL encoding are computed the way the code computes them.               *)
(***************************************************************************)
EXTENDS Integers, Sequences, FiniteSets, TLC

VARIABLES
    \* --- literal formatting (SpecLit) ---
    litIn,      \* the Python value handed to the formatters
    litPc,      \* "in" before the calls, "done" after them
    litOut,     \* what the formatters and their two callers returned
    \* --- filter algebra (SpecFilter) ---
    exprs,      \* the FilterExpression objects created so far (their _expr)
    fop,        \* the last operator applied, with its operands' text before it
    \* --- query builder (SpecQuery) ---
    q,          \* the Query object
    hist,       \* what the setters were called with: per list setter the
                \* arguments of its calls in call order, per scalar setter the
                \* argument of its last call, and the number of calls
    sent,       \* the requests the last call handed to the client, in order
    last,       \* the last call on q and how it ended
    \* --- metadata parser (SpecParse, SpecConc) ---
    NS_edm,     \* the module-level NS["edm"], shared by all invocations
    doc,        \* per parse_metadata invocation: the root ET.fromstring returned
    pc,         \* per invocation: where it stands in parse_metadata
    schema,     \* per invocation: its local schema (an Optional element)
    metadata,   \* per invocation: its local metadata
    todo,       \* per invocation: the iterations its annotation loops still
                \* have to run, as <<ns, short_target, child of the block>>
    \* --- annotation value extraction (SpecExtract) ---
    ext,        \* one _extract_annotation_value call: its argument, the calls
                \* still to be made inside it, and its result
    \* --- client (SpecClient, SpecPages) ---
    cl,         \* the SAPODataClient: _authenticated and _csrf_token
    log,        \* what the client has done since it was constructed, in
                \* order: calls of the auth provider and requests sent
    ret,        \* the last call on the client and how it ended
    \* --- response normalisation (SpecResponse) ---
    pr,         \* a parsed JSON body and what _parse_response made of it
    \* --- explorer (SpecExplore) ---
    an          \* an EntityType and what the field analysis lists for it

litVars == <<litIn, litPc, litOut>>
filterVars == <<exprs, fop>>
queryVars == <<q, hist, sent, last>>
parseVars == <<NS_edm, doc, pc, schema, metadata, todo>>
clientVars == <<cl, log, ret>>
viewVars == <<pr, an>>
vars == <<litIn, litPc, litOut, exprs, fop, q, hist, sent, last,
          NS_edm, doc, pc, schema, metadata, todo, ext, cl, log, ret, pr, an>>

(***************************************************************************)
(* Bounds of the model.                                                    *)
(***************************************************************************)
MaxStrLen == 3      \* longest free string over StrAlphabet fed to a formatter
MaxExprs == 3       \* FilterExpression objects alive in SpecFilter
MaxCalls == 3       \* setter calls made on the Query in SpecQuery
MaxPages == 2       \* largest max_pages handed to execute_all
MaxRows == 2        \* rows in one page of a response
MaxClientCalls == 2 \* calls made on one SAPODataClient in SpecClient
MaxDepth == 2       \* records and collections nested in an annotation value
\* the interpreter's recursion limit, counted in calls of the extraction and
\* scaled to the nesting of the inputs: the deepest of them exceed it
RecursionLimit == 5

(***************************************************************************)
(* Characters and small text helpers.                                      *)
(***************************************************************************)
Digits == {"0","1","2","3","4","5","6","7","8","9"}
HexLetters == {"a","b","c","d","e","f","A","B","C","D","E","F"}
Letters ==
    {"a","b","c","d","e","f","g","h","i","j","k","l","m","n","o","p","q","r",
     "s","t","u","v","w","x","y","z","A","B","C","D","E","F","G","H","I","J",
     "K","L","M","N","O","P","Q","R","S","T","U","V","W","X","Y","Z"}

DigitChar(d) ==
    CASE d = 0 -> "0" [] d = 1 -> "1" [] d = 2 -> "2" [] d = 3 -> "3"
      [] d = 4 -> "4" [] d = 5 -> "5" [] d = 6 -> "6" [] d = 7 -> "7"
      [] d = 8 -> "8" [] d = 9 -> "9"

RECURSIVE NatStr(_)
NatStr(n) == IF n < 10 THEN <<DigitChar(n)>>
             ELSE NatStr(n \div 10) \o <<DigitChar(n % 10)>>

\* str(int)
IntStr(n) == IF n < 0 THEN <<"-">> \o NatStr(0 - n) ELSE NatStr(n)

\* str(float) for a float with one decimal digit, held as its number of tenths
FloatStr(t) ==
    LET a == IF t < 0 THEN 0 - t ELSE t
    IN  (IF t < 0 THEN <<"-">> ELSE << >>)
        \o NatStr(a \div 10) \o <<".">> \o <<DigitChar(a % 10)>>

RECURSIVE Join(_, _)
\* sep.join(parts)
Join(sep, parts) ==
    IF parts = << >> THEN << >>
    ELSE IF Len(parts) = 1 THEN parts[1]
    ELSE parts[1] \o sep \o Join(sep, Tail(parts))

RECURSIVE Flatten(_)
Flatten(ss) == IF ss = << >> THEN << >> ELSE Head(ss) \o Flatten(Tail(ss))

RECURSIVE ReplaceQuote(_)
\* value.replace("'", "''")
ReplaceQuote(s) ==
    IF s = << >> THEN << >>
    ELSE (IF Head(s) = "'" THEN <<"'", "'">> ELSE <<Head(s)>>)
         \o ReplaceQuote(Tail(s))

(***************************************************************************)
(* Python values: one record shape for every kind, so that sets of values  *)
(* are comparable.  kind is the Python type; bool is a subclass of int.    *)
(***************************************************************************)
PyNone == [kind |-> "NoneType", b |-> FALSE, n |-> 0, s |-> << >>]
PyBool(x) == [kind |-> "bool", b |-> x, n |-> 0, s |-> << >>]
PyInt(x) == [kind |-> "int", b |-> FALSE, n |-> x, s |-> << >>]
PyFloat(tenths) == [kind |-> "float", b |-> FALSE, n |-> tenths, s |-> << >>]
PyStr(x) == [kind |-> "str", b |-> FALSE, n |-> 0, s |-> x]

IsInstanceInt(v) == v.kind \in {"int", "bool"}

\* str(value)
PyToStr(v) ==
    CASE v.kind = "NoneType" -> <<"N","o","n","e">>
      [] v.kind = "bool" -> IF v.b THEN <<"T","r","u","e">>
                            ELSE <<"F","a","l","s","e">>
      [] v.kind = "int" -> IntStr(v.n)
      [] v.kind = "float" -> FloatStr(v.n)
      [] v.kind = "str" -> v.s

(***************************************************************************)
(* The two patterns of src/query.py, matched with re.match.  Both are      *)
(* anchored with ^ and $; Python's $ also matches just before one trailing *)
(* newline.                                                                *)
(***************************************************************************)
AllIn(s, from, to, set) == \A i \in from..to : s[i] \in set

\* ^[0-9a-f]{8}-[0-9a-f]{4}-[0-9a-f]{4}-[0-9a-f]{4}-[0-9a-f]{12} with IGNORECASE,
\* on exactly 36 characters
GuidBody(s) ==
    /\ Len(s) = 36
    /\ s[9] = "-" /\ s[14] = "-" /\ s[19] = "-" /\ s[24] = "-"
    /\ AllIn(s, 1, 8, Digits \cup HexLetters)
    /\ AllIn(s, 10, 13, Digits \cup HexLetters)
    /\ AllIn(s, 15, 18, Digits \cup HexLetters)
    /\ AllIn(s, 20, 23, Digits \cup HexLetters)
    /\ AllIn(s, 25, 36, Digits \cup HexLetters)

\* \d{4}-\d{2}-\d{2} on exactly 10 characters
DateBody(s) ==
    /\ Len(s) = 10
    /\ s[5] = "-" /\ s[8] = "-"
    /\ AllIn(s, 1, 4, Digits) /\ AllIn(s, 6, 7, Digits) /\ AllIn(s, 9, 10, Digits)

\* T\d{2}:\d{2}:\d{2} on exactly 9 characters
TimeBody(s) ==
    /\ Len(s) = 9
    /\ s[1] = "T" /\ s[4] = ":" /\ s[7] = ":"
    /\ AllIn(s, 2, 3, Digits) /\ AllIn(s, 5, 6, Digits) /\ AllIn(s, 8, 9, Digits)

\* \d{4}-\d{2}-\d{2}(T\d{2}:\d{2}:\d{2}Z?)? on the whole of s
DateTimeBody(s) ==
    \/ DateBody(s)
    \/ /\ Len(s) = 19
       /\ DateBody(SubSeq(s, 1, 10)) /\ TimeBody(SubSeq(s, 11, 19))
    \/ /\ Len(s) = 20
       /\ DateBody(SubSeq(s, 1, 10)) /\ TimeBody(SubSeq(s, 11, 19))
       /\ s[20] = "Z"

\* the text before one trailing newline, which $ lets through
Chomp(s) == IF Len(s) >= 1 /\ s[Len(s)] = "\n" THEN SubSeq(s, 1, Len(s) - 1) ELSE s

_GUID_RE_match(s) == GuidBody(s) \/ GuidBody(Chomp(s))

_DATE_RE_match(s) == DateTimeBody(s) \/ DateTimeBody(Chomp(s))

(***************************************************************************)
(* Literal formatting.                                                     *)
(***************************************************************************)
Quoted(s) == <<"'">> \o ReplaceQuote(s) \o <<"'">>

\* faulty variants, kept for comparison: they wrap a GUID, or a date, the way the first protocol generation does
_format_literal_GuidWrapped(value) ==
    IF value.kind = "NoneType" THEN <<"n","u","l","l">>
    ELSE IF value.kind = "bool"
         THEN (IF value.b THEN <<"t","r","u","e">> ELSE <<"f","a","l","s","e">>)
    ELSE IF IsInstanceInt(value) THEN PyToStr(value)
    ELSE IF value.kind = "float" THEN PyToStr(value)
    ELSE IF _GUID_RE_match(value.s)
         THEN <<"g","u","i","d","'">> \o value.s \o <<"'">>
    ELSE IF _DATE_RE_match(value.s) THEN value.s
    ELSE Quoted(value.s)

_format_literal_DateWrapped(value) ==
    IF value.kind = "NoneType" THEN <<"n","u","l","l">>
    ELSE IF value.kind = "bool"
         THEN (IF value.b THEN <<"t","r","u","e">> ELSE <<"f","a","l","s","e">>)
    ELSE IF IsInstanceInt(value) THEN PyToStr(value)
    ELSE IF value.kind = "float" THEN PyToStr(value)
    ELSE IF _GUID_RE_match(value.s) THEN value.s
    ELSE IF _DATE_RE_match(value.s)
         THEN <<"d","a","t","e","t","i","m","e","'">> \o value.s \o <<"'">>
    ELSE Quoted(value.s)

_format_literal(value) ==
    IF value.kind = "NoneType" THEN <<"n","u","l","l">>
    ELSE IF value.kind = "bool"
         THEN (IF value.b THEN <<"t","r","u","e">> ELSE <<"f","a","l","s","e">>)
    ELSE IF IsInstanceInt(value) THEN PyToStr(value)
    ELSE IF value.kind = "float" THEN PyToStr(value)
    ELSE IF value.kind = "str"
         THEN (IF _GUID_RE_match(value.s) THEN value.s
               ELSE IF _DATE_RE_match(value.s) THEN value.s
               ELSE Quoted(value.s))
    ELSE PyToStr(value)

_format_key_literal(value) ==
    IF value.kind = "str"
    THEN (IF _GUID_RE_match(value.s) THEN value.s
          ELSE IF _DATE_RE_match(value.s) THEN value.s
          ELSE Quoted(value.s))
    ELSE _format_literal(value)


(***************************************************************************)
(* FilterExpression: the operators build a new object from the operands'   *)
(* text.                                                                   *)
(***************************************************************************)
\* faulty variant, kept for comparison: it parenthesizes a conjunction
FilterExpression__and__Paren(self, other) ==
    <<"(">> \o self \o <<" ","a","n","d"," ">> \o other \o <<")">>

FilterExpression__and__(self, other) == self \o <<" ","a","n","d"," ">> \o other

\* a disjunction without its parentheses
FilterExpression__or__Bare(self, other) ==
    self \o <<" ","o","r"," ">> \o other

FilterExpression__or__(self, other) ==
    <<"(">> \o self \o <<" ","o","r"," ">> \o other \o <<")">>

FilterExpression__invert__(self) == <<"n","o","t"," ","(">> \o self \o <<")">>

(***************************************************************************)
(* F: the filter factory.                                                  *)
(***************************************************************************)
F_compare(field, op, value) ==
    field \o <<" ">> \o op \o <<" ">> \o _format_literal(value)

F_eq(field, value) == F_compare(field, <<"e","q">>, value)
F_ne(field, value) == F_compare(field, <<"n","e">>, value)
F_gt(field, value) == F_compare(field, <<"g","t">>, value)
F_ge(field, value) == F_compare(field, <<"g","e">>, value)
F_lt(field, value) == F_compare(field, <<"l","t">>, value)
F_le(field, value) == F_compare(field, <<"l","e">>, value)

\* faulty variant, kept for comparison: it emits the first protocol
\* generation's substringof with the arguments reversed
F_contains_Substringof(field, value) ==
    <<"s","u","b","s","t","r","i","n","g","o","f","(","'">> \o ReplaceQuote(value)
        \o <<"'",",">> \o field \o <<")">>

F_startswith(field, value) ==
    <<"s","t","a","r","t","s","w","i","t","h","(">> \o field \o <<",","'">>
        \o ReplaceQuote(value) \o <<"'",")">>

F_endswith(field, value) ==
    <<"e","n","d","s","w","i","t","h","(">> \o field \o <<",","'">>
        \o ReplaceQuote(value) \o <<"'",")">>

F_contains(field, value) ==
    <<"c","o","n","t","a","i","n","s","(">> \o field \o <<",","'">>
        \o ReplaceQuote(value) \o <<"'",")">>

(***************************************************************************)
(* Query.  An Optional is a sequence of no or one element; a dict is the   *)
(* sequence of its <<name, value>> items in insertion order.               *)
(***************************************************************************)
None == << >>
Some(x) == <<x>>

s__single__ == <<"_","_","s","i","n","g","l","e","_","_">>
s_json == <<"j","s","o","n">>

DictHas(d, name) == \E i \in DOMAIN d : d[i][1] = name
DictGet(d, name) == d[CHOOSE i \in DOMAIN d : d[i][1] = name][2]

\* Query.__init__
Query(entity_set) ==
    [entity_set |-> entity_set,
     select |-> << >>, filter |-> None, expand |-> << >>, orderby |-> << >>,
     top |-> None, skip |-> None, count |-> FALSE, count_only |-> FALSE,
     format |-> s_json, keys |-> None, nav |-> << >>, custom |-> << >>,
     action_name |-> None, service_path |-> None, client |-> FALSE]

\* SAPODataClient.query
client_query(service_path, entity_set) ==
    [Query(entity_set) EXCEPT !.service_path = Some(service_path),
                              !.client = TRUE]

\* faulty variant, kept for comparison: it replaces the list where the code extends it
Query_select_Replace(self, fields) == [self EXCEPT !.select = fields]

Query_select(self, fields) == [self EXCEPT !.select = @ \o fields]

Query_filter(self, expression) == [self EXCEPT !.filter = Some(expression)]

Query_expand(self, nav_props) == [self EXCEPT !.expand = @ \o nav_props]

Query_orderby(self, fields) == [self EXCEPT !.orderby = @ \o fields]

Query_top(self, n) == [self EXCEPT !.top = Some(n)]

Query_skip(self, n) == [self EXCEPT !.skip = Some(n)]

Query_count(self, enabled) == [self EXCEPT !.count = enabled]

Query_format(self, fmt) == [self EXCEPT !.format = fmt]

\* faulty variant, kept for comparison: it keeps the named fields beside the positional value
Query_key_Merge(self, single, keys) ==
    IF single # None
    THEN [self EXCEPT !.keys = Some(<< <<s__single__, single[1]>> >> \o keys)]
    ELSE [self EXCEPT !.keys = Some(keys)]

\* key(__single=None, **keys): single is None or Some(value)
Query_key(self, single, keys) ==
    IF single # None
    THEN [self EXCEPT !.keys = Some(<< <<s__single__, single[1]>> >>)]
    ELSE [self EXCEPT !.keys = Some(keys)]

Query_nav(self, nav_props) == [self EXCEPT !.nav = @ \o nav_props]

Query_action(self, name) == [self EXCEPT !.action_name = Some(name)]

Query_custom(self, name, value) ==
    [self EXCEPT !.custom = Append(@, <<name, value>>)]

\* Python truthiness of an Optional[str]
Truthy(opt) == opt # None /\ opt[1] # << >>

KeyParts(d) == [i \in DOMAIN d |-> d[i][1] \o <<"=">> \o _format_key_literal(d[i][2])]

\* the key clause of build_path
KeyClause(self) ==
    IF self.keys = None THEN << >>
    ELSE IF DictHas(self.keys[1], s__single__)
         THEN <<"(">> \o _format_key_literal(DictGet(self.keys[1], s__single__))
              \o <<")">>
    ELSE <<"(">> \o Join(<<",">>, KeyParts(self.keys[1])) \o <<")">>

\* faulty variant, kept for comparison: it puts the count segment before the key clause
build_path_CountFirst(self) ==
    self.entity_set
    \o (IF self.count_only THEN <<"/","$","c","o","u","n","t">> ELSE << >>)
    \o KeyClause(self)
    \o (IF self.nav # << >> THEN <<"/">> \o Join(<<"/">>, self.nav) ELSE << >>)
    \o (IF Truthy(self.action_name) THEN <<"/">> \o self.action_name[1] ELSE << >>)

build_path(self) ==
    self.entity_set
    \o KeyClause(self)
    \o (IF self.nav # << >> THEN <<"/">> \o Join(<<"/">>, self.nav) ELSE << >>)
    \o (IF Truthy(self.action_name) THEN <<"/">> \o self.action_name[1] ELSE << >>)
    \o (IF self.count_only THEN <<"/","$","c","o","u","n","t">> ELSE << >>)

(***************************************************************************)
(* urllib.parse.urlencode(params, safe=...) with its default quote_plus.   *)
(***************************************************************************)
AlwaysSafe == Letters \cup Digits \cup {"_", ".", "-", "~"}

\* the percent escapes of the characters the model uses outside AlwaysSafe
PctEncode(c) ==
    CASE c = " " -> <<"%","2","0">>
      [] c = "$" -> <<"%","2","4">>
      [] c = "&" -> <<"%","2","6">>
      [] c = "'" -> <<"%","2","7">>
      [] c = "(" -> <<"%","2","8">>
      [] c = ")" -> <<"%","2","9">>
      [] c = "+" -> <<"%","2","B">>
      [] c = "," -> <<"%","2","C">>
      [] c = "/" -> <<"%","2","F">>
      [] c = ":" -> <<"%","3","A">>
      [] c = "=" -> <<"%","3","D">>
      [] c = "?" -> <<"%","3","F">>
      [] c = "%" -> <<"%","2","5">>
      [] c = "\n" -> <<"%","0","A">>

RECURSIVE quote(_, _)
quote(s, safe) ==
    IF s = << >> THEN << >>
    ELSE (IF Head(s) \in AlwaysSafe \cup safe THEN <<Head(s)>>
          ELSE PctEncode(Head(s)))
         \o quote(Tail(s), safe)

SpaceToPlus(s) == [i \in DOMAIN s |-> IF s[i] = " " THEN "+" ELSE s[i]]

Contains(s, c) == \E i \in DOMAIN s : s[i] = c

quote_plus(s, safe) ==
    IF ~Contains(s, " ") THEN quote(s, safe)
    ELSE SpaceToPlus(quote(s, safe \cup {" "}))

urlencode(params, safe) ==
    Join(<<"&">>,
         [i \in DOMAIN params |->
            quote_plus(params[i][1], safe) \o <<"=">> \o quote_plus(params[i][2], safe)])

BuildSafe == {"$", ",", "/", " ", "'"}

If(c, x) == IF c THEN <<x>> ELSE << >>

\* faulty variant, kept for comparison: it emits format before count
build_params_FormatFirst(self) ==
    If(self.select # << >>, <<<<"$","s","e","l","e","c","t">>, Join(<<",">>, self.select)>>)
    \o If(Truthy(self.filter), <<<<"$","f","i","l","t","e","r">>, self.filter[1]>>)
    \o If(self.expand # << >>, <<<<"$","e","x","p","a","n","d">>, Join(<<",">>, self.expand)>>)
    \o If(self.orderby # << >>, <<<<"$","o","r","d","e","r","b","y">>, Join(<<",">>, self.orderby)>>)
    \o If(self.top # None, <<<<"$","t","o","p">>, IntStr(self.top[1])>>)
    \o If(self.skip # None, <<<<"$","s","k","i","p">>, IntStr(self.skip[1])>>)
    \o If(self.format # << >> /\ ~self.count_only, <<<<"$","f","o","r","m","a","t">>, self.format>>)
    \o If(self.count, <<<<"$","c","o","u","n","t">>, <<"t","r","u","e">>>>)
    \o self.custom

\* the params list of Query.build, before encoding
build_params(self) ==
    If(self.select # << >>, <<<<"$","s","e","l","e","c","t">>, Join(<<",">>, self.select)>>)
    \o If(Truthy(self.filter), <<<<"$","f","i","l","t","e","r">>, self.filter[1]>>)
    \o If(self.expand # << >>, <<<<"$","e","x","p","a","n","d">>, Join(<<",">>, self.expand)>>)
    \o If(self.orderby # << >>, <<<<"$","o","r","d","e","r","b","y">>, Join(<<",">>, self.orderby)>>)
    \o If(self.top # None, <<<<"$","t","o","p">>, IntStr(self.top[1])>>)
    \o If(self.skip # None, <<<<"$","s","k","i","p">>, IntStr(self.skip[1])>>)
    \o If(self.count, <<<<"$","c","o","u","n","t">>, <<"t","r","u","e">>>>)
    \o If(self.format # << >> /\ ~self.count_only, <<<<"$","f","o","r","m","a","t">>, self.format>>)
    \o self.custom

build(self) == urlencode(build_params(self), BuildSafe)


(***************************************************************************)
(* Execution.  A request is what SAPODataClient hands to _get or _post:    *)
(* the path under base_url and the query string; the client joins them     *)
(* with "?" when the query string is not empty.  An execute-style call     *)
(* returns the Query as it leaves it, the requests it made, and the        *)
(* exception it ended with ("none" when it returned).                      *)
(***************************************************************************)
Request(method, service_path, self, with_qs) ==
    [method |-> method,
     path |-> service_path \o <<"/">> \o build_path(self),
     qs |-> IF with_qs THEN build(self) ELSE << >>]

RequestUrl(r) == r.path \o (IF r.qs # << >> THEN <<"?">> \o r.qs ELSE << >>)

\* a server-supplied next link, followed as it is
s_nextLink == <<"/","s","a","p","/","s","r","v","/","n","e","x","t">>
NextRequest == [method |-> "GET", path |-> s_nextLink, qs |-> << >>]

\* _require_client raises
RequireClientRaises(self) == ~self.client \/ self.service_path = None

Outcome(self, reqs, err) == [q |-> self, reqs |-> reqs, err |-> err]

\* execute -> client.execute_query; resp is "ok" or the exception of the transport
Query_execute(self, resp) ==
    IF RequireClientRaises(self) THEN Outcome(self, << >>, "RuntimeError")
    ELSE Outcome(self, <<Request("GET", self.service_path[1], self, TRUE)>>,
                 IF resp = "ok" THEN "none" ELSE resp)

\* execute_action -> client._execute_bound_action
Query_execute_action(self, resp) ==
    IF RequireClientRaises(self) THEN Outcome(self, << >>, "RuntimeError")
    ELSE IF ~Truthy(self.action_name) THEN Outcome(self, << >>, "RuntimeError")
    ELSE Outcome(self, <<Request("POST", self.service_path[1], self, FALSE)>>,
                 IF resp = "ok" THEN "none" ELSE resp)

\* execute_all -> client._execute_all: n pages are fetched, the first by the
\* query's own URL and the others by the next link of the page before; resp is
\* how the last fetch ended
Query_execute_all(self, max_pages, n, resp) ==
    IF RequireClientRaises(self) THEN Outcome(self, << >>, "RuntimeError")
    ELSE Outcome(self,
                 [i \in 1..n |-> IF i = 1
                                 THEN Request("GET", self.service_path[1], self, TRUE)
                                 ELSE NextRequest],
                 IF resp = "ok" THEN "none" ELSE resp)

\* faulty variant, kept for comparison: it enters count-only mode before it checks the client
Query_get_count_SetFirst(self, resp) ==
    LET counting == [self EXCEPT !.count_only = TRUE]
    IN  IF RequireClientRaises(self) THEN Outcome(counting, << >>, "RuntimeError")
        ELSE Outcome([counting EXCEPT !.count_only = self.count_only],
                     <<Request("GET", self.service_path[1], counting, TRUE)>>,
                     IF resp = "ok" THEN "none" ELSE resp)

\* faulty variant, kept for comparison: count_only is restored only when the
\* count request returns
Query_get_count_NoFinally(self, resp) ==
    IF RequireClientRaises(self) THEN Outcome(self, << >>, "RuntimeError")
    ELSE LET counting == [self EXCEPT !.count_only = TRUE]
         IN  Outcome(IF resp = "ok" THEN self ELSE counting,
                     <<Request("GET", self.service_path[1], counting, TRUE)>>,
                     IF resp = "ok" THEN "none" ELSE resp)

\* get_count -> client._execute_count, count_only restored in the finally block
Query_get_count(self, resp) ==
    IF RequireClientRaises(self) THEN Outcome(self, << >>, "RuntimeError")
    ELSE LET prev == self.count_only
             counting == [self EXCEPT !.count_only = TRUE]
         IN  Outcome([counting EXCEPT !.count_only = prev],
                     <<Request("GET", self.service_path[1], counting, TRUE)>>,
                     IF resp = "ok" THEN "none" ELSE resp)

(***************************************************************************)
(* XML as xml.etree.ElementTree holds it.  An element is a record: ns and  *)
(* tag are the two parts of its qualified name {ns}tag, attrs its          *)
(* attributes as <<name, value>> items, text its text (an Optional) and    *)
(* kids its child elements in document order.  Attribute values and text   *)
(* are character sequences; names are compared whole and kept as strings.  *)
(***************************************************************************)
Elem(ns, tag, attrs, text, kids) ==
    [ns |-> ns, tag |-> tag, attrs |-> attrs, text |-> text, kids |-> kids]

\* elem.get(name): an Optional
Get(elem, name) ==
    IF DictHas(elem.attrs, name) THEN Some(DictGet(elem.attrs, name)) ELSE None

\* elem.get(name, default)
GetOr(elem, name, default) ==
    IF DictHas(elem.attrs, name) THEN DictGet(elem.attrs, name) ELSE default

RECURSIVE Matching(_, _, _)
\* the elements of a sequence with the qualified name {ns}tag, in order
Matching(elems, ns, tag) ==
    IF elems = << >> THEN << >>
    ELSE (IF Head(elems).ns = ns /\ Head(elems).tag = tag THEN <<Head(elems)>>
          ELSE << >>) \o Matching(Tail(elems), ns, tag)

\* elem.findall("{ns}tag"): the matching children
findall(elem, ns, tag) == Matching(elem.kids, ns, tag)

\* elem.find("{ns}tag"): the first matching child, an Optional
find(elem, ns, tag) ==
    LET all == findall(elem, ns, tag)
    IN  IF all = << >> THEN None ELSE Some(all[1])

RECURSIVE Descendants(_)
\* the elements below elem, in document order
Descendants(elem) ==
    IF elem.kids = << >> THEN << >>
    ELSE Flatten([i \in 1..Len(elem.kids) |->
                    <<elem.kids[i]>> \o Descendants(elem.kids[i])])

\* elem.iter("{ns}tag"): elem itself and the elements below it that match
iter(elem, ns, tag) == Matching(<<elem>> \o Descendants(elem), ns, tag)

\* elem.find(".//{ns}tag"): the first matching element below elem
find_below(elem, ns, tag) ==
    LET all == Matching(Descendants(elem), ns, tag)
    IN  IF all = << >> THEN None ELSE Some(all[1])

(***************************************************************************)
(* The str methods the parser uses.                                        *)
(***************************************************************************)
UpperLetters == <<"A","B","C","D","E","F","G","H","I","J","K","L","M",
                  "N","O","P","Q","R","S","T","U","V","W","X","Y","Z">>
LowerLetters == <<"a","b","c","d","e","f","g","h","i","j","k","l","m",
                  "n","o","p","q","r","s","t","u","v","w","x","y","z">>

LowerChar(c) ==
    IF \E i \in 1..26 : UpperLetters[i] = c
    THEN LowerLetters[CHOOSE i \in 1..26 : UpperLetters[i] = c]
    ELSE c

\* s.lower()
lower(s) == [i \in 1..Len(s) |-> LowerChar(s[i])]

Whitespace == {" ", "\n", "\t", "\r"}

RECURSIVE lstrip(_)
lstrip(s) == IF s # << >> /\ Head(s) \in Whitespace THEN lstrip(Tail(s)) ELSE s

RECURSIVE rstrip(_)
rstrip(s) ==
    IF s # << >> /\ s[Len(s)] \in Whitespace THEN rstrip(SubSeq(s, 1, Len(s) - 1))
    ELSE s

\* s.strip()
strip(s) == rstrip(lstrip(s))

\* s.startswith(prefix)
startswith(s, prefix) ==
    Len(s) >= Len(prefix) /\ SubSeq(s, 1, Len(prefix)) = prefix

\* s.split(c)[0]: the text before the first c, all of s when it has none
split_first(s, c) ==
    IF Contains(s, c)
    THEN SubSeq(s, 1, (CHOOSE i \in DOMAIN s :
                          s[i] = c /\ \A j \in 1..(i - 1) : s[j] # c) - 1)
    ELSE s

\* s.split(c)[-1]: the text after the last c, all of s when it has none
split_last(s, c) ==
    IF Contains(s, c)
    THEN SubSeq(s, (CHOOSE i \in DOMAIN s :
                       s[i] = c /\ \A j \in (i + 1)..Len(s) : s[j] # c) + 1, Len(s))
    ELSE s

\* s.isdigit()
isdigit(s) == s # << >> /\ \A i \in DOMAIN s : s[i] \in Digits

DigitValue(c) == CHOOSE d \in 0..9 : DigitChar(d) = c

RECURSIVE int(_)
\* int(s) for a string of digits
int(s) ==
    IF Len(s) = 1 THEN DigitValue(s[1])
    ELSE 10 * int(SubSeq(s, 1, Len(s) - 1)) + DigitValue(s[Len(s)])

s_true == <<"t","r","u","e">>
s_false == <<"f","a","l","s","e">>

\* _bool(value, default) with value a str
_bool(value, default) == IF value = << >> THEN default ELSE lower(value) = s_true

(***************************************************************************)
(* src/metadata.py.  The module-level NS["edm"] is state (NS_edm); the     *)
(* functions that read it take its value at the time of the read as their  *)
(* last argument, edm.                                                     *)
(***************************************************************************)
NS_edmx == "http://schemas.microsoft.com/ado/2007/06/edmx"
NS_edm_2008 == "http://schemas.microsoft.com/ado/2008/09/edm"
NS_edm_2006 == "http://schemas.microsoft.com/ado/2006/04/edm"
NS_edm_2009 == "http://schemas.microsoft.com/ado/2009/11/edm"
NS_sap == "http://www.sap.com/Protocols/SAPData"
NS_m == "http://schemas.microsoft.com/ado/2007/08/dataservices/metadata"
NS_EDM_V4 == "http://docs.oasis-open.org/odata/ns/edm"

\* the value NS["edm"] has when the module is loaded
NS_edm_loaded == NS_edm_2008

\* an attribute in the vendor namespace, as ElementTree names it
SapAttr(attr) == "{" \o NS_sap \o "}" \o attr

\* _sap(elem, attr): default ""
_sap(elem, attr) == GetOr(elem, SapAttr(attr), << >>)

(***************************************************************************)
(* Annotation values (Annotation.value is Any): None, a bool, a str, a     *)
(* dict as its <<key, value>> items in insertion order, or a list.  One    *)
(* record shape for every kind.                                            *)
(***************************************************************************)
VNone == [kind |-> "NoneType", b |-> FALSE, s |-> << >>, items |-> << >>]
VBool(b) == [kind |-> "bool", b |-> b, s |-> << >>, items |-> << >>]
VStr(s) == [kind |-> "str", b |-> FALSE, s |-> s, items |-> << >>]
VDict(items) == [kind |-> "dict", b |-> FALSE, s |-> << >>, items |-> items]

\* a list holds its values as items with an empty key, so that any two values
\* are comparable
VList(values) ==
    [kind |-> "list", b |-> FALSE, s |-> << >>,
     items |-> [i \in 1..Len(values) |-> <<<< >>, values[i]>>]]

\* the values of a list, in order
ListValues(v) == [i \in 1..Len(v.items) |-> v.items[i][2]]

\* bool(value)
ValueTruthy(v) ==
    CASE v.kind = "NoneType" -> FALSE
      [] v.kind = "bool" -> v.b
      [] v.kind = "str" -> v.s # << >>
      [] OTHER -> v.items # << >>

\* d[key] = value on a dict: a new key goes last, an old key keeps its place
DictSet(items, key, value) ==
    IF DictHas(items, key)
    THEN [i \in 1..Len(items) |->
            IF items[i][1] = key THEN <<key, value>> ELSE items[i]]
    ELSE Append(items, <<key, value>>)

\* value.get(key) on a dict value: None when the key is missing
ValueGet(v, key) == IF DictHas(v.items, key) THEN DictGet(v.items, key) ELSE VNone

\* value.get(key, default)
ValueGetOr(v, key, default) ==
    IF DictHas(v.items, key) THEN DictGet(v.items, key) ELSE default

\* a or b on two Optional strings
Or(a, b) == IF Truthy(a) THEN a ELSE b

\* child.text.strip() if child.text else ""
TextOf(child) == IF Truthy(child.text) THEN strip(child.text[1]) ELSE << >>

(***************************************************************************)
(* Annotation value extraction.  ExtractShape is the branch that           *)
(* _extract_annotation_value takes on an element; the value follows from   *)
(* the branch.                                                             *)
(***************************************************************************)
InlineAttrs == <<"String", "Bool", "EnumMember", "Int", "Path", "EnumValue">>
SimpleTags == <<"String", "Bool", "Int", "Path", "EnumMember">>

\* the namespaces searched for child elements, in the order of the loop
ChildSpaces(ns, edm) == <<ns, NS_EDM_V4, edm>>

\* the child <simple> elements of elem in child_ns that are found and carry text
SimpleHits(elem, child_ns) ==
    {i \in 1..Len(SimpleTags) :
        LET child == find(elem, child_ns, SimpleTags[i])
        IN  child # None /\ Truthy(child[1].text)}

Min(S) == CHOOSE x \in S : \A y \in S : x <= y
Max(S) == CHOOSE x \in S : \A y \in S : x >= y

RECURSIVE ChildShape(_, _)
\* the loop over the child namespaces: the first namespace in which a simple
\* element with text, else a Record, else a Collection is found
ChildShape(elem, spaces) ==
    IF spaces = << >> THEN [shape |-> "absent"]
    ELSE LET child_ns == Head(spaces)
             hits == SimpleHits(elem, child_ns)
             record == find(elem, child_ns, "Record")
             collection == find(elem, child_ns, "Collection")
         IN  IF hits # {}
             THEN [shape |-> "simple", simple |-> SimpleTags[Min(hits)],
                   child |-> find(elem, child_ns, SimpleTags[Min(hits)])[1]]
             ELSE IF record # None
             THEN [shape |-> "record", child |-> record[1], ns |-> child_ns]
             ELSE IF collection # None
             THEN [shape |-> "collection", child |-> collection[1], ns |-> child_ns]
             ELSE ChildShape(elem, Tail(spaces))

ExtractShape(elem, ns, edm) ==
    LET present == {i \in 1..Len(InlineAttrs) : Get(elem, InlineAttrs[i]) # None}
    IN  IF present # {}
        THEN [shape |-> "inline", attr |-> InlineAttrs[Min(present)],
              val |-> Get(elem, InlineAttrs[Min(present)])[1]]
        ELSE ChildShape(elem, ChildSpaces(ns, edm))

\* the PropertyValue children a record visits, in the order of its two loops
RecordPropertyValues(elem, ns, edm) ==
    findall(elem, ns, "PropertyValue") \o findall(elem, NS_EDM_V4, "PropertyValue")
        \o findall(elem, edm, "PropertyValue")

\* pv.get("String") or pv.get("Bool") or pv.get("Path") or pv.get("EnumMember")
InlinePropVal(pv) ==
    Or(Or(Or(Get(pv, "String"), Get(pv, "Bool")), Get(pv, "Path")),
       Get(pv, "EnumMember"))

s__Type == <<"$","T","y","p","e">>

RECURSIVE _extract_annotation_value(_, _, _)
RECURSIVE _parse_record(_, _, _)
RECURSIVE RecordItems(_, _, _, _)
RECURSIVE _parse_collection(_, _, _)

_extract_annotation_value(elem, ns, edm) ==
    LET sh == ExtractShape(elem, ns, edm)
    IN  CASE sh.shape = "inline" ->
               IF sh.attr = "Bool" THEN VBool(lower(sh.val) = s_true)
               ELSE VStr(sh.val)
          [] sh.shape = "simple" ->
               IF sh.simple = "Bool"
               THEN VBool(lower(strip(sh.child.text[1])) = s_true)
               ELSE VStr(strip(sh.child.text[1]))
          [] sh.shape = "record" -> _parse_record(sh.child, sh.ns, edm)
          [] sh.shape = "collection" -> _parse_collection(sh.child, sh.ns, edm)
          [] OTHER -> VNone

\* the body of the loops of _parse_record over the PropertyValue elements
RecordItems(pvs, result, ns, edm) ==
    IF pvs = << >> THEN result
    ELSE LET pv == Head(pvs)
             prop_name == GetOr(pv, "Property", << >>)
             prop_val == InlinePropVal(pv)
             value == IF prop_val # None
                      THEN IF Get(pv, "Bool") # None
                           THEN VBool(lower(prop_val[1]) = s_true)
                           ELSE VStr(prop_val[1])
                      ELSE _extract_annotation_value(pv, ns, edm)
         IN  IF prop_name = << >> THEN RecordItems(Tail(pvs), result, ns, edm)
             ELSE RecordItems(Tail(pvs), DictSet(result, prop_name, value), ns, edm)

_parse_record(elem, ns, edm) ==
    LET rec_type == GetOr(elem, "Type", << >>)
        result == IF rec_type # << >> THEN << <<s__Type, VStr(rec_type)>> >>
                  ELSE << >>
    IN  VDict(RecordItems(RecordPropertyValues(elem, ns, edm), result, ns, edm))

_parse_collection(elem, ns, edm) ==
    VList([i \in 1..Len(elem.kids) |->
             IF elem.kids[i].tag = "Record" THEN _parse_record(elem.kids[i], ns, edm)
             ELSE VStr(TextOf(elem.kids[i]))])

(***************************************************************************)
(* The calls one _extract_annotation_value call makes, one at a time.  A   *)
(* frame is a call that is still to run: the function and its arguments.   *)
(***************************************************************************)
Frame(fn, elem, ns) == [fn |-> fn, elem |-> elem, ns |-> ns]

\* the call _extract_annotation_value makes: into the record or collection
\* it found, none when it returns a scalar or None
ExtractCallees(elem, ns, edm) ==
    LET sh == ExtractShape(elem, ns, edm)
    IN  CASE sh.shape = "record" -> <<Frame("record", sh.child, sh.ns)>>
          [] sh.shape = "collection" -> <<Frame("collection", sh.child, sh.ns)>>
          [] OTHER -> << >>

RECURSIVE PropertyValueCallees(_, _)
PropertyValueCallees(pvs, ns) ==
    IF pvs = << >> THEN << >>
    ELSE (IF GetOr(Head(pvs), "Property", << >>) # << >>
             /\ InlinePropVal(Head(pvs)) = None
          THEN <<Frame("extract", Head(pvs), ns)>> ELSE << >>)
         \o PropertyValueCallees(Tail(pvs), ns)

\* the calls _parse_record makes: one per named PropertyValue without an
\* inline value
RecordCallees(elem, ns, edm) ==
    PropertyValueCallees(RecordPropertyValues(elem, ns, edm), ns)

RECURSIVE CollectionCallees(_, _)
\* the calls _parse_collection makes: one per Record child
CollectionCallees(kids, ns) ==
    IF kids = << >> THEN << >>
    ELSE (IF Head(kids).tag = "Record" THEN <<Frame("record", Head(kids), ns)>>
          ELSE << >>) \o CollectionCallees(Tail(kids), ns)

(***************************************************************************)
(* The text constants of src/metadata.py.                                  *)
(***************************************************************************)
s_GET == <<"G","E","T">>
s_ValueList_long ==
    <<"c","o","m",".","s","a","p",".","v","o","c","a","b","u","l","a","r",
      "i","e","s",".","C","o","m","m","o","n",".","v","1",".","V","a","l",
      "u","e","L","i","s","t">>
s_ValueList_short ==
    <<"C","o","m","m","o","n",".","V","a","l","u","e","L","i","s","t">>
s_ValueListParameter_long ==
    <<"c","o","m",".","s","a","p",".","v","o","c","a","b","u","l","a","r",
      "i","e","s",".","C","o","m","m","o","n",".","v","1",".","V","a","l",
      "u","e","L","i","s","t","P","a","r","a","m","e","t","e","r">>
s_ValueListParameter_short ==
    <<"C","o","m","m","o","n",".","V","a","l","u","e","L","i","s","t","P",
      "a","r","a","m","e","t","e","r">>
s_InsertRestrictions ==
    <<"I","n","s","e","r","t","R","e","s","t","r","i","c","t","i","o","n",
      "s">>
s_UpdateRestrictions ==
    <<"U","p","d","a","t","e","R","e","s","t","r","i","c","t","i","o","n",
      "s">>
s_DeleteRestrictions ==
    <<"D","e","l","e","t","e","R","e","s","t","r","i","c","t","i","o","n",
      "s">>
s_Insertable == <<"I","n","s","e","r","t","a","b","l","e">>
s_Updatable == <<"U","p","d","a","t","a","b","l","e">>
s_Deletable == <<"D","e","l","e","t","a","b","l","e">>
s_Label == <<"L","a","b","e","l">>
s_CollectionPath ==
    <<"C","o","l","l","e","c","t","i","o","n","P","a","t","h">>
s_SearchSupported ==
    <<"S","e","a","r","c","h","S","u","p","p","o","r","t","e","d">>
s_Parameters == <<"P","a","r","a","m","e","t","e","r","s">>
s_LocalDataProperty ==
    <<"L","o","c","a","l","D","a","t","a","P","r","o","p","e","r","t","y">>
s_ValueListProperty ==
    <<"V","a","l","u","e","L","i","s","t","P","r","o","p","e","r","t","y">>

s_InOut == <<"I","n","O","u","t">>
s_In == <<"I","n">>
s_Out == <<"O","u","t">>
s_DisplayOnly == <<"D","i","s","p","l","a","y","O","n","l","y">>
s_Constant == <<"C","o","n","s","t","a","n","t">>
s_FilterOnly == <<"F","i","l","t","e","r","O","n","l","y">>

(***************************************************************************)
(* The schema parsers.                                                     *)
(***************************************************************************)
_parse_property(elem) ==
    LET max_len == Get(elem, "MaxLength")
    IN  [name |-> GetOr(elem, "Name", << >>),
         type |-> GetOr(elem, "Type", << >>),
         nullable |-> _bool(GetOr(elem, "Nullable", s_true), TRUE),
         max_length |-> IF Truthy(max_len) /\ isdigit(max_len[1])
                        THEN Some(int(max_len[1])) ELSE None,
         label |-> _sap(elem, "label"),
         filterable |-> _bool(_sap(elem, "filterable"), TRUE),
         sortable |-> _bool(_sap(elem, "sortable"), TRUE),
         creatable |-> _bool(_sap(elem, "creatable"), TRUE),
         updatable |-> _bool(_sap(elem, "updatable"), TRUE),
         text |-> _sap(elem, "text"),
         quickinfo |-> _sap(elem, "quickinfo"),
         value_list |-> _sap(elem, "value-list"),
         unit |-> _sap(elem, "unit"),
         semantics |-> _sap(elem, "semantics"),
         display_format |-> _sap(elem, "display-format")]

NavigationProperty(nav_elem) ==
    [name |-> GetOr(nav_elem, "Name", << >>),
     relationship |-> GetOr(nav_elem, "Relationship", << >>),
     from_role |-> GetOr(nav_elem, "FromRole", << >>),
     to_role |-> GetOr(nav_elem, "ToRole", << >>)]

\* f applied to each element of a sequence
Map(f(_), elems) == [i \in 1..Len(elems) |-> f(elems[i])]

PropertyRefName(prop_ref) == GetOr(prop_ref, "Name", << >>)

_parse_entity_type(elem, edm) ==
    LET key_elem == find(elem, edm, "Key")
    IN  [name |-> GetOr(elem, "Name", << >>),
         key_properties |->
             IF key_elem # None
             THEN Map(PropertyRefName, findall(key_elem[1], edm, "PropertyRef"))
             ELSE << >>,
         properties |-> Map(_parse_property, findall(elem, edm, "Property")),
         navigation_properties |->
             Map(NavigationProperty, findall(elem, edm, "NavigationProperty"))]

AssociationEnd(end_elem) ==
    [role |-> GetOr(end_elem, "Role", << >>),
     entity_type |-> GetOr(end_elem, "Type", << >>),
     multiplicity |-> GetOr(end_elem, "Multiplicity", << >>)]

\* faulty variant, kept for comparison: the last end becomes end2
_parse_association_Last(elem, edm) ==
    LET ends == findall(elem, edm, "End")
    IN  [name |-> GetOr(elem, "Name", << >>),
         end1 |-> IF Len(ends) >= 1 THEN Some(AssociationEnd(ends[1])) ELSE None,
         end2 |-> IF Len(ends) >= 2 THEN Some(AssociationEnd(ends[Len(ends)])) ELSE None]

_parse_association(elem, edm) ==
    LET ends == findall(elem, edm, "End")
    IN  [name |-> GetOr(elem, "Name", << >>),
         end1 |-> IF Len(ends) >= 1 THEN Some(AssociationEnd(ends[1])) ELSE None,
         end2 |-> IF Len(ends) >= 2 THEN Some(AssociationEnd(ends[2])) ELSE None]

_parse_entity_set(elem) ==
    [name |-> GetOr(elem, "Name", << >>),
     entity_type |-> GetOr(elem, "EntityType", << >>),
     addressable |-> _bool(_sap(elem, "addressable"), TRUE),
     creatable |-> _bool(_sap(elem, "creatable"), TRUE),
     updatable |-> _bool(_sap(elem, "updatable"), TRUE),
     deletable |-> _bool(_sap(elem, "deletable"), TRUE)]

_parse_function_import(elem, edm) ==
    [name |-> GetOr(elem, "Name", << >>),
     http_method |-> GetOr(elem, "{" \o NS_m \o "}HttpMethod", s_GET),
     return_type |-> GetOr(elem, "ReturnType", << >>),
     parameters |-> Map(_parse_property, findall(elem, edm, "Parameter"))]

\* ServiceMetadata()
ServiceMetadata ==
    [schema_namespace |-> << >>, entity_types |-> << >>, associations |-> << >>,
     entity_sets |-> << >>, function_imports |-> << >>, annotations |-> << >>,
     value_lists |-> << >>]

_strip_namespace(target, schema_ns) ==
    IF schema_ns # << >> /\ startswith(target, schema_ns \o <<".">>)
    THEN SubSeq(target, Len(schema_ns) + 2, Len(target))
    ELSE target

(***************************************************************************)
(* Value lists and capability restrictions.                                *)
(***************************************************************************)
\* faulty variant, kept for comparison: it strips the short prefix only
ParameterRole_ShortOnly(p_type_raw) ==
    IF startswith(p_type_raw, s_ValueListParameter_short)
    THEN SubSeq(p_type_raw, Len(s_ValueListParameter_short) + 1, Len(p_type_raw))
    ELSE p_type_raw

\* the loop over the two prefixes: the short type of a parameter record
ParameterRole(p_type_raw) ==
    IF startswith(p_type_raw, s_ValueListParameter_long)
    THEN SubSeq(p_type_raw, Len(s_ValueListParameter_long) + 1, Len(p_type_raw))
    ELSE IF startswith(p_type_raw, s_ValueListParameter_short)
    THEN SubSeq(p_type_raw, Len(s_ValueListParameter_short) + 1, Len(p_type_raw))
    ELSE p_type_raw

ValueListParameter(p) ==
    [type |-> ParameterRole(ValueGetOr(p, s__Type, VStr(<< >>)).s),
     local_property |-> ValueGetOr(p, s_LocalDataProperty, VStr(<< >>)),
     value_list_property |-> ValueGetOr(p, s_ValueListProperty, VStr(<< >>))]

RECURSIVE Dicts(_)
\* the items of a list that are dicts, in order
Dicts(items) ==
    IF items = << >> THEN << >>
    ELSE (IF Head(items).kind = "dict" THEN <<Head(items)>> ELSE << >>)
         \o Dicts(Tail(items))

\* p_type_raw.startswith raises AttributeError when "$Type" holds no str
ValueListRaises(value) ==
    /\ value.kind = "dict"
    /\ ValueGet(value, s_Parameters).kind = "list"
    /\ LET dicts == Dicts(ListValues(ValueGet(value, s_Parameters)))
       IN  \E i \in 1..Len(dicts) :
               ValueGetOr(dicts[i], s__Type, VStr(<< >>)).kind # "str"

\* _parse_value_list on the value it extracted: an Optional ValueListInfo
ValueListInfo(value) ==
    IF value.kind # "dict" THEN None
    ELSE LET params == ValueGet(value, s_Parameters)
         IN  Some([label |-> ValueGetOr(value, s_Label, VStr(<< >>)),
                   collection_path |-> ValueGetOr(value, s_CollectionPath, VStr(<< >>)),
                   search_supported |->
                       ValueTruthy(ValueGetOr(value, s_SearchSupported, VBool(FALSE))),
                   parameters |->
                       IF params.kind = "list"
                       THEN Map(ValueListParameter, Dicts(ListValues(params)))
                       ELSE << >>])

RECURSIVE OfTypes(_, _)
\* the parameters with a type among types, in order
OfTypes(params, types) ==
    IF params = << >> THEN << >>
    ELSE (IF Head(params).type \in types THEN <<Head(params)>> ELSE << >>)
         \o OfTypes(Tail(params), types)

\* _value_helps: the parameters listed as key mappings and as display-only
\* columns; an entry is the parameter its text is formatted from
key_mappings(vl) == OfTypes(vl.parameters, {s_InOut, s_In})
display_only(vl) == OfTypes(vl.parameters, {s_DisplayOnly})

_parse_value_list(ann_elem, ns, edm) ==
    LET value == _extract_annotation_value(ann_elem, ns, edm)
    IN  IF ValueListRaises(value) THEN [raised |-> TRUE, vl |-> None]
        ELSE [raised |-> FALSE, vl |-> ValueListInfo(value)]

\* faulty variant, kept for comparison: it sets the flag of every entity set
_apply_capability_restriction_All(term_short, value, target, entity_sets) ==
    IF value.kind # "dict" THEN entity_sets
    ELSE [i \in 1..Len(entity_sets) |->
            IF term_short = s_InsertRestrictions
               /\ ValueGet(value, s_Insertable) # VNone
            THEN [entity_sets[i] EXCEPT
                    !.creatable = ValueTruthy(ValueGet(value, s_Insertable))]
            ELSE entity_sets[i]]

\* the entity sets after _apply_capability_restriction
_apply_capability_restriction(term_short, value, target, entity_sets) ==
    LET es_name == split_first(target, "/")
        named == {i \in 1..Len(entity_sets) : entity_sets[i].name = es_name}
        insertable == ValueGet(value, s_Insertable)
        updatable == ValueGet(value, s_Updatable)
        deletable == ValueGet(value, s_Deletable)
    IN  IF value.kind # "dict" \/ named = {} THEN entity_sets
        ELSE LET es == entity_sets[Min(named)]
                 changed ==
                     IF term_short = s_InsertRestrictions /\ insertable # VNone
                     THEN [es EXCEPT !.creatable = ValueTruthy(insertable)]
                     ELSE IF term_short = s_UpdateRestrictions /\ updatable # VNone
                     THEN [es EXCEPT !.updatable = ValueTruthy(updatable)]
                     ELSE IF term_short = s_DeleteRestrictions /\ deletable # VNone
                     THEN [es EXCEPT !.deletable = ValueTruthy(deletable)]
                     ELSE es
             IN  [entity_sets EXCEPT ![Min(named)] = changed]

(***************************************************************************)
(* _parse_annotation_block: the body of its loop, for one child element of *)
(* a block.  The result is the metadata after it and whether it raised.    *)
(***************************************************************************)
Annotation(ann_elem, value) ==
    [term |-> GetOr(ann_elem, "Term", << >>),
     qualifier |-> GetOr(ann_elem, "Qualifier", << >>),
     value |-> value]

\* d.setdefault(key, []).append(x) on a dict of lists
DictAppend(items, key, x) ==
    DictSet(items, key,
            (IF DictHas(items, key) THEN DictGet(items, key) ELSE << >>) \o <<x>>)

RestrictionTerms == {s_InsertRestrictions, s_UpdateRestrictions, s_DeleteRestrictions}

\* faulty variant, kept for comparison: it keeps one annotation per target
AnnotationBody_Overwrite(ann_elem, ns, target, md, edm) ==
    IF ~(ann_elem.tag = "Annotation" /\ ann_elem.ns \in {NS_EDM_V4, edm})
    THEN [raised |-> FALSE, metadata |-> md]
    ELSE [raised |-> FALSE,
          metadata |->
            [md EXCEPT !.annotations =
                DictSet(md.annotations, target,
                        <<Annotation(ann_elem,
                              _extract_annotation_value(ann_elem, ns, edm))>>)]]

AnnotationBody(ann_elem, ns, target, md, edm) ==
    IF ~(ann_elem.tag = "Annotation" /\ ann_elem.ns \in {NS_EDM_V4, edm})
    THEN [raised |-> FALSE, metadata |-> md]
    ELSE LET term == GetOr(ann_elem, "Term", << >>)
             value == _extract_annotation_value(ann_elem, ns, edm)
             stored == [md EXCEPT !.annotations =
                          DictAppend(md.annotations, target,
                                     Annotation(ann_elem, value))]
             short_term == split_last(term, ".")
             parsed == _parse_value_list(ann_elem, ns, edm)
         IN  IF term \in {s_ValueList_long, s_ValueList_short}
             THEN IF parsed.raised THEN [raised |-> TRUE, metadata |-> stored]
                  ELSE IF parsed.vl # None
                  THEN [raised |-> FALSE,
                        metadata |-> [stored EXCEPT !.value_lists =
                            DictSet(stored.value_lists, target, parsed.vl[1])]]
                  ELSE [raised |-> FALSE, metadata |-> stored]
             ELSE IF short_term \in RestrictionTerms
             THEN [raised |-> FALSE,
                   metadata |-> [stored EXCEPT !.entity_sets =
                       _apply_capability_restriction(short_term, value, target,
                                                     stored.entity_sets)]]
             ELSE [raised |-> FALSE, metadata |-> stored]

(***************************************************************************)
(* Text used by the inputs.                                                *)
(***************************************************************************)
s_Flights == <<"F","l","i","g","h","t","s">>
s_CarrierId == <<"C","a","r","r","i","e","r","I","d">>
s_ConnectionId == <<"C","o","n","n","e","c","t","i","o","n","I","d">>
s_Price == <<"P","r","i","c","e">>
s_LH == <<"L","H">>
s_0400 == <<"0","4","0","0">>
s_to_Bookings == <<"t","o","_","B","o","o","k","i","n","g","s">>
s_Confirm == <<"C","o","n","f","i","r","m">>
s_xml == <<"x","m","l">>
s_sap_client == <<"s","a","p","-","c","l","i","e","n","t">>
s_100 == <<"1","0","0">>
s_Price_desc == <<"P","r","i","c","e"," ","d","e","s","c">>
s_service_path == <<"/","s","a","p","/","s","r","v">>
s_date == <<"2","0","2","4","-","0","1","-","1","5">>

(***************************************************************************)
(* The documents handed to parse_metadata, as the trees ET.fromstring      *)
(* returns for them (well-formed text; malformed text raises before any    *)
(* of the code modelled here runs).                                        *)
(***************************************************************************)
s_SAP == <<"S","A","P">>
s_Order == <<"O","r","d","e","r">>
s_Orders == <<"O","r","d","e","r","s">>
s_Items == <<"I","t","e","m","s">>
s_Id == <<"I","d">>
s_Missing == <<"M","i","s","s","i","n","g">>
s_Edm_String == <<"E","d","m",".","S","t","r","i","n","g">>
s_10 == <<"1","0">>
s_POST == <<"P","O","S","T">>
s_SAP_Orders == <<"S","A","P",".","O","r","d","e","r","s">>
s_Orders_Items == <<"O","r","d","e","r","s","/","I","t","e","m","s">>
s_Nope == <<"N","o","p","e">>
s_Capabilities ==
    <<"O","r","g",".","O","D","a","t","a",".","C","a","p","a","b","i","l",
      "i","t","i","e","s",".","V","1",".">>
s_UI_Hidden == <<"U","I",".","H","i","d","d","e","n">>
s_UI_LineItem == <<"U","I",".","L","i","n","e","I","t","e","m">>
s_Order_Id == <<"S","A","P",".","O","r","d","e","r","/","I","d">>
s_Foo == <<"F","o","o">>
s_Customers == <<"C","u","s","t","o","m","e","r","s">>
s_Name == <<"N","a","m","e">>
s_q == <<"q">>

PropertyElem(edm, name) ==
    Elem(edm, "Property",
         << <<"Name", name>>, <<"Type", s_Edm_String>>, <<"Nullable", s_false>>,
            <<"MaxLength", s_10>>, <<SapAttr("label"), s_Order>>,
            <<SapAttr("filterable"), s_false>> >>, None, << >>)

\* an entity type Order with a property Id and a key that refers to keyname
EntityTypeElem(edm, keyname) ==
    Elem(edm, "EntityType", << <<"Name", s_Order>> >>, None,
         << Elem(edm, "Key", << >>, None,
                 << Elem(edm, "PropertyRef", << <<"Name", keyname>> >>, None, << >>) >>),
            PropertyElem(edm, s_Id),
            Elem(edm, "NavigationProperty",
                 << <<"Name", s_Items>>, <<"Relationship", s_SAP_Orders>>,
                    <<"FromRole", s_Order>>, <<"ToRole", s_Items>> >>, None, << >>) >>)

EndElem(edm, role) ==
    Elem(edm, "End", << <<"Role", role>>, <<"Type", s_Order>>,
                         <<"Multiplicity", <<"1">> >> >>, None, << >>)

AssociationElem(edm) ==
    Elem(edm, "Association", << <<"Name", s_SAP_Orders>> >>, None,
         <<EndElem(edm, s_Order), EndElem(edm, s_Items)>>)

EntitySetElem(edm, name, flags) ==
    Elem(edm, "EntitySet", << <<"Name", name>>, <<"EntityType", s_Order>> >> \o flags,
         None, << >>)

\* the entity sets Orders (all flags by default), Items (not creatable, not
\* updatable) and a second set named Orders, and one function import
ContainerElem(edm) ==
    Elem(edm, "EntityContainer", << <<"Name", s_SAP>> >>, None,
         << EntitySetElem(edm, s_Orders, << >>),
            EntitySetElem(edm, s_Items, << <<SapAttr("creatable"), s_false>>,
                                           <<SapAttr("updatable"), s_false>> >>),
            EntitySetElem(edm, s_Orders, << >>),
            Elem(edm, "FunctionImport",
                 << <<"Name", s_Confirm>>, <<"{" \o NS_m \o "}HttpMethod", s_POST>> >>,
                 None, << Elem(edm, "Parameter", << <<"Name", s_Id>> >>, None, << >>) >>) >>)

SchemaElem(edm, keyname, blocks) ==
    Elem(edm, "Schema", << <<"Namespace", s_SAP>> >>, None,
         <<EntityTypeElem(edm, keyname), AssociationElem(edm), ContainerElem(edm)>>
         \o blocks)

\* <edmx:Edmx><edmx:DataServices> schemas </edmx:DataServices></edmx:Edmx>
Document(schemas) ==
    Elem(NS_edmx, "Edmx", << >>, None,
         << Elem(NS_edmx, "DataServices", << >>, None, schemas) >>)

PropertyValueElem(ns, prop, attrs, kids) ==
    Elem(ns, "PropertyValue", << <<"Property", prop>> >> \o attrs, None, kids)

RecordElem(ns, type, kids) ==
    Elem(ns, "Record", IF type = << >> THEN << >> ELSE << <<"Type", type>> >>,
         None, kids)

AnnotationElem(ns, term, qualifier, attrs, kids) ==
    Elem(ns, "Annotation",
         << <<"Term", term>> >>
         \o (IF qualifier = << >> THEN << >> ELSE << <<"Qualifier", qualifier>> >>)
         \o attrs, None, kids)

\* <Annotations Target="..."> children </Annotations>; target is an Optional
AnnotationsElem(ns, target, kids) ==
    Elem(ns, "Annotations",
         IF target = None THEN << >> ELSE << <<"Target", target[1]>> >>, None, kids)

\* the Insertable / Updatable / Deletable fields a restriction record carries:
\* none, one as a Bool, one as a String, one without a value
RestrictionFields ==
    {<< >>}
    \cup {<<PropertyValueElem(NS_EDM_V4, f, << <<"Bool", b>> >>, << >>)>> :
            f \in {s_Insertable, s_Updatable, s_Deletable}, b \in {s_true, s_false}}
    \cup {<<PropertyValueElem(NS_EDM_V4, s_Insertable, << <<"String", s_false>> >>, << >>)>>,
          <<PropertyValueElem(NS_EDM_V4, s_Deletable, << >>, << >>)>>}

RestrictionTargets == {s_Orders, s_SAP_Orders, s_Orders_Items, s_Items, s_Nope}

RestrictionAnnotation(term, fields) ==
    AnnotationElem(NS_EDM_V4, term, << >>, << >>,
                   <<RecordElem(NS_EDM_V4, << >>, fields)>>)

\* one restriction annotation on one target; the term is spelled with its
\* vocabulary namespace, and on Orders also without it
RestrictionDocs ==
    {Document(<<SchemaElem(NS_edm_2008, s_Id,
          <<AnnotationsElem(NS_EDM_V4, Some(target),
                <<RestrictionAnnotation(prefix \o term, fields)>>)>>)>>) :
       term \in RestrictionTerms, target \in RestrictionTargets,
       fields \in RestrictionFields,
       prefix \in {s_Capabilities}}
    \cup
    {Document(<<SchemaElem(NS_edm_2008, s_Id,
          <<AnnotationsElem(NS_EDM_V4, Some(s_Orders),
                <<RestrictionAnnotation(term1, fields),
                  RestrictionAnnotation(s_Capabilities \o term2, fields)>>)>>)>>) :
       term1 \in RestrictionTerms, term2 \in RestrictionTerms,
       fields \in {<<PropertyValueElem(NS_EDM_V4, s_Insertable,
                                       << <<"Bool", s_false>> >>, << >>),
                     PropertyValueElem(NS_EDM_V4, s_Updatable,
                                       << <<"Bool", s_false>> >>, << >>)>>}}

\* blocks of plain annotations: under the annotation namespace with a
\* namespace-qualified target, under the schema namespace, and none
GenericBlocks(edm) ==
    {<< AnnotationsElem(NS_EDM_V4, Some(s_Order_Id),
            << AnnotationElem(NS_EDM_V4, s_UI_Hidden, s_q, << <<"Bool", s_true>> >>, << >>),
               Elem(NS_EDM_V4, "Documentation", << >>, None, << >>),
               AnnotationElem(NS_EDM_V4, s_UI_LineItem, << >>, << >>,
                   << Elem(NS_EDM_V4, "Collection", << >>, None,
                           << Elem(NS_EDM_V4, "PropertyPath", << >>, Some(s_Id), << >>),
                              RecordElem(NS_EDM_V4, s_Foo, << >>) >>) >>) >>),
        AnnotationsElem(NS_EDM_V4, None,
            << AnnotationElem(NS_EDM_V4, s_UI_Hidden, << >>, << >>, << >>) >>) >>,
     << AnnotationsElem(edm, Some(s_Orders),
            << AnnotationElem(edm, s_UI_Hidden, << >>, << >>,
                   << Elem(edm, "String", << >>, Some(<<" ">> \o s_Name \o <<"\n">>), << >>) >>),
               AnnotationElem(NS_EDM_V4, s_UI_Hidden, << >>, << >>, << >>) >>),
        AnnotationsElem(NS_EDM_V4, Some(s_Orders),
            << AnnotationElem(edm, s_UI_LineItem, << >>, << <<"Path", s_Name>> >>, << >>) >>) >>,
     << >>}

\* the namespaces a document's schema is written in: the three the parser
\* knows, and the annotation namespace, which it does not look a schema up in
SchemaSpaces == {NS_edm_2008, NS_edm_2006, NS_edm_2009, NS_EDM_V4}

NamespaceDocs ==
    UNION {{Document(<<SchemaElem(edm, keyname, blocks)>>) :
              keyname \in {s_Id, s_Missing}, blocks \in GenericBlocks(edm)} :
           edm \in SchemaSpaces}
    \cup
    {Document(<<SchemaElem(NS_edm_2006, s_Id, blocks),
                SchemaElem(edm, s_Missing, << >>)>>) :
       edm \in {NS_edm_2008, NS_edm_2009},
       blocks \in {<< >>,
                   << AnnotationsElem(NS_edm_2006, Some(s_Orders),
                         << AnnotationElem(NS_edm_2006, s_UI_Hidden, << >>,
                                           << <<"Bool", s_true>> >>, << >>) >>) >>}}

\* the i-th parameter record of a value list: its local property is P<i>
ParameterElem(type, i, extra) ==
    RecordElem(NS_EDM_V4, type,
        << PropertyValueElem(NS_EDM_V4, s_LocalDataProperty,
                             << <<"Path", <<"P", DigitChar(i)>> >> >>, << >>),
           PropertyValueElem(NS_EDM_V4, s_ValueListProperty, << <<"String", s_Name>> >>, << >>) >>
        \o extra)

\* the declared types of the parameters of a value list, in declaration order
ParameterTypes ==
    {<<s_InOut, s_InOut, s_DisplayOnly>>, <<s_InOut, s_DisplayOnly, s_InOut>>,
     <<s_DisplayOnly, s_InOut, s_InOut>>, <<s_In, s_Out>>, <<s_Constant, s_FilterOnly>>,
     << >>}

ValueListAnnotation(term, params) ==
    AnnotationElem(NS_EDM_V4, term, << >>, << >>,
        << RecordElem(NS_EDM_V4, << >>,
             << PropertyValueElem(NS_EDM_V4, s_Label, << <<"String", s_Customers>> >>, << >>),
                PropertyValueElem(NS_EDM_V4, s_CollectionPath,
                                  << <<"String", s_Customers>> >>, << >>),
                PropertyValueElem(NS_EDM_V4, s_SearchSupported,
                                  << <<"Bool", s_true>> >>, << >>),
                PropertyValueElem(NS_EDM_V4, s_Parameters, << >>,
                    << Elem(NS_EDM_V4, "Collection", << >>, None, params) >>) >>) >>)

ValueListDoc(term, params) ==
    Document(<<SchemaElem(NS_edm_2008, s_Id,
        <<AnnotationsElem(NS_EDM_V4, Some(s_Order_Id),
                          <<ValueListAnnotation(term, params)>>)>>)>>)

\* value lists under both spellings of the term and of the parameter types;
\* parameters with a type outside the vocabulary, without a type, with a
\* "$Type" property that is no string, and a collection item that is no record
ValueListDocs ==
    {ValueListDoc(term, [i \in 1..Len(types) |-> ParameterElem(prefix \o types[i], i, << >>)]) :
       term \in {s_ValueList_long, s_ValueList_short},
       prefix \in {s_ValueListParameter_long, s_ValueListParameter_short},
       types \in ParameterTypes}
    \cup
    {ValueListDoc(term, <<ParameterElem(type, 1, << >>)>>) :
       term \in {s_ValueList_long, s_ValueList_short},
       type \in {s_Foo, << >>, s_InOut}}
    \cup
    {ValueListDoc(s_ValueList_short,
        <<ParameterElem(s_ValueListParameter_short \o s_InOut, 1,
              <<PropertyValueElem(NS_EDM_V4, s__Type, << <<"Bool", s_true>> >>, << >>)>>)>>),
     ValueListDoc(s_ValueList_short,
        <<Elem(NS_EDM_V4, "String", << >>, Some(s_Name), << >>),
          ParameterElem(s_ValueListParameter_short \o s_Out, 2, << >>)>>),
     ValueListDoc(s_UI_LineItem,
        <<ParameterElem(s_ValueListParameter_short \o s_InOut, 1, << >>)>>)}

\* a schema with the given children only
SchemaOf(edm, kids) == Elem(edm, "Schema", << <<"Namespace", s_SAP>> >>, None, kids)

\* the End children of an Association: none, one, two and three, with roles
\* R1, R2, R3 in document order
EndChoices ==
    {[k \in 1..n |-> EndElem(NS_edm_2008, <<"R", DigitChar(k)>>)] : n \in 0..3}

\* documents whose schema holds one Association and nothing else, and ones
\* without any Schema element
AssociationDocs ==
    {Document(<<SchemaOf(NS_edm_2008,
          <<Elem(NS_edm_2008, "Association", << <<"Name", s_SAP_Orders>> >>, None,
                 ends)>>)>>) : ends \in EndChoices}
    \cup {Document(<< >>),
          Document(<<Elem(NS_edm_2008, "EntityType", << <<"Name", s_Order>> >>, None,
                          << >>)>>)}

Documents == RestrictionDocs \cup NamespaceDocs \cup ValueListDocs \cup AssociationDocs

\* the documents parsed concurrently: one per schema namespace
ConcDocuments ==
    {Document(<<SchemaElem(edm, s_Id,
          << AnnotationsElem(edm, Some(s_Orders),
                << AnnotationElem(edm, s_InsertRestrictions, << >>, << >>,
                       <<RecordElem(edm, << >>,
                             <<PropertyValueElem(edm, s_Insertable,
                                   << <<"Bool", s_false>> >>, << >>)>>)>>) >>) >>)>>) :
       edm \in SchemaSpaces}

(***************************************************************************)
(* Idle values of the variables a specification does not use.              *)
(***************************************************************************)
NoLitOut == [lit |-> << >>, keylit |-> << >>, filter |-> << >>,
             path |-> << >>, pathNamed |-> << >>]
NoFop == [op |-> "none", a |-> 0, b |-> 0, res |-> 0, atext |-> << >>, btext |-> << >>]
NoHist == [select |-> << >>, filter |-> << >>, expand |-> << >>, orderby |-> << >>,
           top |-> << >>, skip |-> << >>, count |-> << >>, format |-> << >>,
           key |-> << >>, nav |-> << >>, action |-> << >>, custom |-> << >>,
           calls |-> 0]
NoLast == [op |-> "init", err |-> "none"]

LitIdle == litIn = PyNone /\ litPc = "idle" /\ litOut = NoLitOut
FilterIdle == exprs = << >> /\ fop = NoFop
QueryIdle == q = Query(<< >>) /\ hist = NoHist /\ sent = << >> /\ last = NoLast

Invocations == {1, 2}
NoDoc == Elem("", "", << >>, None, << >>)
NoExt == [elem |-> NoDoc, ns |-> "", edm |-> "", stack |-> << >>,
          value |-> VNone, pc |-> "idle"]

ParseIdle ==
    /\ NS_edm = NS_edm_loaded
    /\ doc = [i \in Invocations |-> NoDoc]
    /\ pc = [i \in Invocations |-> "idle"]
    /\ schema = [i \in Invocations |-> None]
    /\ metadata = [i \in Invocations |-> ServiceMetadata]
    /\ todo = [i \in Invocations |-> << >>]
ExtIdle == ext = NoExt

\* SAPODataClient.__init__
SAPODataClient == [authenticated |-> FALSE, csrf_token |-> None]
\* no call made yet
NoRet == [op |-> "none", call |-> 0, raised |-> "none", resp |-> None,
          rows |-> << >>]
ClientIdle == cl = SAPODataClient /\ log = << >> /\ ret = NoRet
NoPr == [data |-> VNone, pc |-> "idle", raised |-> "none", rows |-> VNone]
NoAn == [et |-> << >>, pc |-> "idle", keys |-> << >>, required |-> << >>,
         attrs |-> << >>]
ViewIdle == pr = NoPr /\ an = NoAn

(***************************************************************************)
(* SpecLit: one value is drawn and formatted as a filter literal (by       *)
(* F.eq) and as a key literal (by build_path, positional and named form).  *)
(***************************************************************************)
StrAlphabet == {"a", "'", "\n"}

RECURSIVE StringsUpTo(_)
StringsUpTo(n) ==
    IF n = 0 THEN {<< >>}
    ELSE LET shorter == StringsUpTo(n - 1)
         IN  shorter \cup {Append(s, c) : s \in shorter, c \in StrAlphabet}

Rep(c, n) == [i \in 1..n |-> c]

\* GUID-shaped text and near misses: a wrong separator, a non-hex letter, a
\* trailing character
GuidLike ==
    {Rep(c1, 8) \o <<sep>> \o Rep(c2, 4) \o <<sep>> \o Rep(c1, 4) \o <<sep>>
        \o Rep(c2, 4) \o <<sep>> \o Rep(c1, 12) \o suffix :
     c1 \in {"a", "F", "3"}, c2 \in {"0", "B", "g"}, sep \in {"-", "_"},
     suffix \in {<< >>, <<"\n">>, <<"0">>}}

\* date-shaped text and near misses
DateLike ==
    {<<"2","0","2","4",sep,"0",d,sep,"1","5">> \o time \o suffix :
     d \in {"1", "x"}, sep \in {"-", "/"},
     time \in {<< >>, <<"T","1","0",":","3","0",":","0","0">>,
               <<"T","1","0",":","3","0",":","0","0","Z">>,
               <<"T","1","0",":","3","0">>},
     suffix \in {<< >>, <<"\n">>}}

LiteralInputs ==
    {PyNone, PyBool(TRUE), PyBool(FALSE)}
    \cup {PyInt(n) : n \in {-12, -1, 0, 1, 7, 100}}
    \cup {PyFloat(t) : t \in {-5, 0, 15, 1000}}
    \cup {PyStr(s) : s \in StringsUpTo(MaxStrLen) \cup GuidLike \cup DateLike}

LitInit ==
    /\ litIn \in LiteralInputs
    /\ litPc = "in"
    /\ litOut = NoLitOut
    /\ FilterIdle /\ QueryIdle /\ ParseIdle /\ ExtIdle /\ ClientIdle /\ ViewIdle

\* Query.key(value): a positional None is "no positional value"
Positional(value) == IF value = PyNone THEN None ELSE Some(value)

FormatLiterals ==
    /\ litPc = "in"
    /\ litOut' =
         [lit |-> _format_literal(litIn),
          keylit |-> _format_key_literal(litIn),
          filter |-> F_eq(s_CarrierId, litIn),
          path |-> build_path(Query_key(Query(s_Flights), Positional(litIn), << >>)),
          pathNamed |-> build_path(Query_key(Query(s_Flights), None,
                                             << <<s_CarrierId, litIn>> >>))]
    /\ litPc' = "done"
    /\ UNCHANGED <<litIn, filterVars, queryVars, parseVars, ext, clientVars, viewVars>>

LitNext == FormatLiterals

SpecLit == LitInit /\ [][LitNext]_vars

(***************************************************************************)
(* SpecFilter: FilterExpression objects are created by the factory and     *)
(* combined with &, | and ~; every operator returns a new object.          *)
(***************************************************************************)
LeafExprs ==
    {F_eq(s_CarrierId, PyStr(s_LH)), F_gt(s_Price, PyInt(100)),
     F_le(s_Price, PyFloat(15)),
     F_eq(s_Name, PyStr(<<"'", " ", "o", "r", " ", "(">>)),
     F_startswith(s_Name, <<")", " ", "a", "n", "d", " ">>)}

FilterInit ==
    exprs = << >> /\ fop = NoFop /\ LitIdle /\ QueryIdle /\ ParseIdle /\ ExtIdle /\ ClientIdle /\ ViewIdle

NewLeaf ==
    /\ Len(exprs) < MaxExprs
    /\ \E e \in LeafExprs :
         /\ exprs' = Append(exprs, e)
         /\ fop' = [op |-> "leaf", a |-> 0, b |-> 0, res |-> Len(exprs) + 1,
                    atext |-> << >>, btext |-> << >>]
    /\ UNCHANGED <<litVars, queryVars, parseVars, ext, clientVars, viewVars>>

AndOp ==
    /\ Len(exprs) < MaxExprs
    /\ \E i \in DOMAIN exprs, j \in DOMAIN exprs :
         /\ exprs' = Append(exprs, FilterExpression__and__(exprs[i], exprs[j]))
         /\ fop' = [op |-> "and", a |-> i, b |-> j, res |-> Len(exprs) + 1,
                    atext |-> exprs[i], btext |-> exprs[j]]
    /\ UNCHANGED <<litVars, queryVars, parseVars, ext, clientVars, viewVars>>

OrOp ==
    /\ Len(exprs) < MaxExprs
    /\ \E i \in DOMAIN exprs, j \in DOMAIN exprs :
         /\ exprs' = Append(exprs, FilterExpression__or__(exprs[i], exprs[j]))
         /\ fop' = [op |-> "or", a |-> i, b |-> j, res |-> Len(exprs) + 1,
                    atext |-> exprs[i], btext |-> exprs[j]]
    /\ UNCHANGED <<litVars, queryVars, parseVars, ext, clientVars, viewVars>>

InvertOp ==
    /\ Len(exprs) < MaxExprs
    /\ \E i \in DOMAIN exprs :
         /\ exprs' = Append(exprs, FilterExpression__invert__(exprs[i]))
         /\ fop' = [op |-> "not", a |-> i, b |-> i, res |-> Len(exprs) + 1,
                    atext |-> exprs[i], btext |-> exprs[i]]
    /\ UNCHANGED <<litVars, queryVars, parseVars, ext, clientVars, viewVars>>

FilterNext == NewLeaf \/ AndOp \/ OrOp \/ InvertOp

SpecFilter == FilterInit /\ [][FilterNext]_vars

(***************************************************************************)
(* SpecStrFn: one string predicate is created by the factory from a field  *)
(* name and a value; fop keeps the call (atext the field, btext the value).*)
(***************************************************************************)
StrFnFields == {s_CarrierId, s_Price}

StrFnCall(op, field, value, text) ==
    /\ exprs = << >>
    /\ exprs' = <<text>>
    /\ fop' = [op |-> op, a |-> 0, b |-> 0, res |-> 1,
               atext |-> field, btext |-> value]
    /\ UNCHANGED <<litVars, queryVars, parseVars, ext, clientVars, viewVars>>

StartsWith ==
    \E field \in StrFnFields, value \in StringsUpTo(MaxStrLen) :
        StrFnCall("startswith", field, value, F_startswith(field, value))

EndsWith ==
    \E field \in StrFnFields, value \in StringsUpTo(MaxStrLen) :
        StrFnCall("endswith", field, value, F_endswith(field, value))

ContainsOp ==
    \E field \in StrFnFields, value \in StringsUpTo(MaxStrLen) :
        StrFnCall("contains", field, value, F_contains(field, value))

StrFnNext == StartsWith \/ EndsWith \/ ContainsOp

SpecStrFn == FilterInit /\ [][StrFnNext]_vars


(***************************************************************************)
(* SpecQuery: a Query is constructed, directly or by SAPODataClient.query, *)
(* and then receives setter calls and execute-style calls in any order.    *)
(***************************************************************************)
\* F.eq("CarrierId","LH") & F.gt("Price",100)
FlightsFilter ==
    FilterExpression__and__(F_eq(s_CarrierId, PyStr(s_LH)), F_gt(s_Price, PyInt(100)))

SelectArgs == {<<s_CarrierId>>, <<s_CarrierId, s_Price>>}
FilterArgs == {FlightsFilter, << >>}
ExpandArgs == {<<s_to_Bookings>>}
OrderbyArgs == {<<s_Price_desc>>}
TopArgs == {0, 5}
SkipArgs == {10}
CountArgs == {TRUE, FALSE}
FormatArgs == {s_xml, << >>}
KeySingleArgs == {None, Some(PyStr(s_LH))}
KeyNamedArgs ==
    {<< >>, << <<s_CarrierId, PyStr(s_LH)>> >>,
     << <<s_CarrierId, PyStr(s_LH)>>, <<s_ConnectionId, PyStr(s_0400)>> >>}
NavArgs == {<<s_to_Bookings>>}
ActionArgs == {s_Confirm}
CustomArgs == {<<s_sap_client, s_100>>, <<<<"x">>, <<"a","=","b","&","c">>>>}

QueryInit ==
    /\ q \in {Query(s_Flights), client_query(s_service_path, s_Flights)}
    /\ hist = NoHist
    /\ sent = << >>
    /\ last = NoLast
    /\ LitIdle /\ FilterIdle /\ ParseIdle /\ ExtIdle /\ ClientIdle /\ ViewIdle

\* a setter call: it hands nothing to the client
Set(newq, newhist) ==
    /\ hist.calls < MaxCalls
    /\ q' = newq
    /\ hist' = [newhist EXCEPT !.calls = @ + 1]
    /\ sent' = << >>
    /\ last' = [op |-> "set", err |-> "none"]
    /\ UNCHANGED <<litVars, filterVars, parseVars, ext, clientVars, viewVars>>

Select == \E fields \in SelectArgs :
    Set(Query_select(q, fields), [hist EXCEPT !.select = Append(@, fields)])

Filter == \E expression \in FilterArgs :
    Set(Query_filter(q, expression), [hist EXCEPT !.filter = Some(expression)])

Expand == \E nav_props \in ExpandArgs :
    Set(Query_expand(q, nav_props), [hist EXCEPT !.expand = Append(@, nav_props)])

Orderby == \E fields \in OrderbyArgs :
    Set(Query_orderby(q, fields), [hist EXCEPT !.orderby = Append(@, fields)])

Top == \E n \in TopArgs :
    Set(Query_top(q, n), [hist EXCEPT !.top = Some(n)])

Skip == \E n \in SkipArgs :
    Set(Query_skip(q, n), [hist EXCEPT !.skip = Some(n)])

Count == \E enabled \in CountArgs :
    Set(Query_count(q, enabled), [hist EXCEPT !.count = Some(enabled)])

Format == \E fmt \in FormatArgs :
    Set(Query_format(q, fmt), [hist EXCEPT !.format = Some(fmt)])

Key == \E single \in KeySingleArgs, keys \in KeyNamedArgs :
    Set(Query_key(q, single, keys), [hist EXCEPT !.key = Some(<<single, keys>>)])

Nav == \E nav_props \in NavArgs :
    Set(Query_nav(q, nav_props), [hist EXCEPT !.nav = Append(@, nav_props)])

Action == \E name \in ActionArgs :
    Set(Query_action(q, name), [hist EXCEPT !.action = Some(name)])

Custom == \E c \in CustomArgs :
    Set(Query_custom(q, c[1], c[2]), [hist EXCEPT !.custom = Append(@, c)])

\* an execute-style call
Exec(op, out) ==
    /\ q' = out.q
    /\ sent' = out.reqs
    /\ last' = [op |-> op, err |-> out.err]
    /\ UNCHANGED <<hist, litVars, filterVars, parseVars, ext, clientVars, viewVars>>

Execute == \E resp \in {"ok", "HTTPError"} :
    Exec("execute", Query_execute(q, resp))

ExecuteAction == \E resp \in {"ok", "HTTPError"} :
    Exec("execute_action", Query_execute_action(q, resp))

\* the loop runs at most max_pages times; it ends early on a page without a
\* next link or on a failed fetch
ExecuteAll == \E max_pages \in 0..MaxPages, n \in 0..MaxPages, resp \in {"ok", "HTTPError"} :
    /\ n <= max_pages
    /\ (n = 0) = (max_pages = 0)
    /\ resp = "HTTPError" => n >= 1
    /\ Exec("execute_all", Query_execute_all(q, max_pages, n, resp))

\* the count request fails (HTTPError) or its body is no integer (ValueError)
GetCount == \E resp \in {"ok", "HTTPError", "ValueError"} :
    Exec("get_count", Query_get_count(q, resp))

\* SpecQuery: every setter, and get_count, the one execute-style call that
\* writes a builder field
QueryNext ==
    \/ Select \/ Filter \/ Expand \/ Orderby \/ Top \/ Skip \/ Count \/ Format
    \/ Key \/ Nav \/ Action \/ Custom
    \/ GetCount

SpecQuery == QueryInit /\ [][QueryNext]_vars

\* SpecExec: every execute-style call, and the setters that shape the request
\* path
ExecNext ==
    \/ Filter \/ Top \/ Key \/ Nav \/ Action
    \/ Execute \/ ExecuteAction \/ ExecuteAll \/ GetCount

SpecExec == QueryInit /\ [][ExecNext]_vars

(***************************************************************************)
(* parse_metadata, stage by stage.  Every stage reads NS["edm"] when it    *)
(* runs; edm is the value it reads.                                        *)
(***************************************************************************)
\* faulty variant, kept for comparison: the annotation namespace is tried too
SchemaUris_WithV4 == <<NS_edm_2008, NS_edm_2006, NS_edm_2009, NS_EDM_V4>>

\* the namespace URIs parse_metadata tries, in the order it tries them
SchemaUris == <<NS_edm_2008, NS_edm_2006, NS_edm_2009>>

\* faulty variant, kept for comparison: the URI found is not stored
StoredSpace_Keep(ns_uri, current) == current

\* NS["edm"] = ns_uri: the value NS["edm"] holds after the assignment
StoredSpace(ns_uri, current) == ns_uri

\* the loop over the URIs: the index of the first URI under which a Schema
\* is found below the root, 0 when there is none
ResolvedIndex(root) ==
    LET hits == {k \in 1..Len(SchemaUris) :
                    find_below(root, SchemaUris[k], "Schema") # None}
    IN  IF hits = {} THEN 0 ELSE Min(hits)

\* the loop over the EntityType elements
WithEntityTypes(md, schema_elem, edm) ==
    [md EXCEPT !.entity_types =
        md.entity_types
        \o Map(LAMBDA e : _parse_entity_type(e, edm),
               findall(schema_elem, edm, "EntityType"))]

\* the loop over the Association elements
WithAssociations(md, schema_elem, edm) ==
    [md EXCEPT !.associations =
        md.associations
        \o Map(LAMBDA e : _parse_association(e, edm),
               findall(schema_elem, edm, "Association"))]

\* the EntityContainer: its entity sets and function imports
WithContainer(md, schema_elem, edm) ==
    LET container == find(schema_elem, edm, "EntityContainer")
    IN  IF container = None THEN md
        ELSE [md EXCEPT
                !.entity_sets =
                    md.entity_sets
                    \o Map(_parse_entity_set, findall(container[1], edm, "EntitySet")),
                !.function_imports =
                    md.function_imports
                    \o Map(LAMBDA e : _parse_function_import(e, edm),
                           findall(container[1], edm, "FunctionImport"))]

\* _parse_annotations: the iterations of its loops and of the loop of
\* _parse_annotation_block, in order, each as <<ns, short_target, child>>
AnnotationTodo(root, schema_namespace, edm) ==
    LET OfBlock(ns, block) ==
            LET target == GetOr(block, "Target", << >>)
            IN  IF target = << >> THEN << >>
                ELSE [k \in 1..Len(block.kids) |->
                        <<ns, _strip_namespace(target, schema_namespace),
                          block.kids[k]>>]
        OfSpace(ns) ==
            LET blocks == iter(root, ns, "Annotations")
            IN  Flatten([b \in 1..Len(blocks) |-> OfBlock(ns, blocks[b])])
    IN  OfSpace(NS_EDM_V4) \o OfSpace(edm)

RECURSIVE AnnotationLoop(_, _, _)
\* the iterations run one after the other; an exception ends them
AnnotationLoop(items, md, edm) ==
    IF items = << >> THEN [raised |-> FALSE, metadata |-> md]
    ELSE LET r == AnnotationBody(Head(items)[3], Head(items)[1], Head(items)[2],
                                 md, edm)
         IN  IF r.raised THEN r ELSE AnnotationLoop(Tail(items), r.metadata, edm)

\* parse_metadata run from start to end with nothing else running
parse_metadata(root) ==
    LET k == ResolvedIndex(root)
    IN  IF k = 0 THEN [raised |-> FALSE, metadata |-> ServiceMetadata]
        ELSE LET edm == SchemaUris[k]
                 schema_elem == find_below(root, edm, "Schema")[1]
                 named == [ServiceMetadata EXCEPT
                             !.schema_namespace = GetOr(schema_elem, "Namespace", << >>)]
                 parsed == WithContainer(
                               WithAssociations(
                                   WithEntityTypes(named, schema_elem, edm),
                                   schema_elem, edm),
                               schema_elem, edm)
             IN  AnnotationLoop(AnnotationTodo(root, parsed.schema_namespace, edm),
                                parsed, edm)

(***************************************************************************)
(* SpecParse: one parse_metadata invocation on one document.  SpecConc:    *)
(* two invocations on two documents, interleaved stage by stage.           *)
(***************************************************************************)
Resolve(i) ==
    /\ pc[i] = "start"
    /\ LET k == ResolvedIndex(doc[i])
       IN  IF k = 0
           THEN /\ pc' = [pc EXCEPT ![i] = "done"]
                /\ UNCHANGED <<NS_edm, schema, metadata>>
           ELSE LET found == find_below(doc[i], SchemaUris[k], "Schema")
                IN  /\ NS_edm' = StoredSpace(SchemaUris[k], NS_edm)
                    /\ schema' = [schema EXCEPT ![i] = found]
                    /\ metadata' = [metadata EXCEPT ![i].schema_namespace =
                                       GetOr(found[1], "Namespace", << >>)]
                    /\ pc' = [pc EXCEPT ![i] = "entity_types"]
    /\ UNCHANGED <<doc, todo, litVars, filterVars, queryVars, ext, clientVars, viewVars>>

EntityTypes(i) ==
    /\ pc[i] = "entity_types"
    /\ metadata' = [metadata EXCEPT
                      ![i] = WithEntityTypes(metadata[i], schema[i][1], NS_edm)]
    /\ pc' = [pc EXCEPT ![i] = "associations"]
    /\ UNCHANGED <<NS_edm, doc, schema, todo, litVars, filterVars, queryVars, ext, clientVars, viewVars>>

Associations(i) ==
    /\ pc[i] = "associations"
    /\ metadata' = [metadata EXCEPT
                      ![i] = WithAssociations(metadata[i], schema[i][1], NS_edm)]
    /\ pc' = [pc EXCEPT ![i] = "container"]
    /\ UNCHANGED <<NS_edm, doc, schema, todo, litVars, filterVars, queryVars, ext, clientVars, viewVars>>

Container(i) ==
    /\ pc[i] = "container"
    /\ metadata' = [metadata EXCEPT
                      ![i] = WithContainer(metadata[i], schema[i][1], NS_edm)]
    /\ pc' = [pc EXCEPT ![i] = "annotations"]
    /\ UNCHANGED <<NS_edm, doc, schema, todo, litVars, filterVars, queryVars, ext, clientVars, viewVars>>

BeginAnnotations(i) ==
    /\ pc[i] = "annotations"
    /\ todo' = [todo EXCEPT
                  ![i] = AnnotationTodo(doc[i], metadata[i].schema_namespace, NS_edm)]
    /\ pc' = [pc EXCEPT ![i] = "annotation"]
    /\ UNCHANGED <<NS_edm, doc, schema, metadata, litVars, filterVars, queryVars, ext, clientVars, viewVars>>

AnnotationStep(i) ==
    /\ pc[i] = "annotation"
    /\ todo[i] # << >>
    /\ LET item == Head(todo[i])
           r == AnnotationBody(item[3], item[1], item[2], metadata[i], NS_edm)
       IN  /\ metadata' = [metadata EXCEPT ![i] = r.metadata]
           /\ pc' = [pc EXCEPT ![i] = IF r.raised THEN "raised" ELSE "annotation"]
    /\ todo' = [todo EXCEPT ![i] = Tail(todo[i])]
    /\ UNCHANGED <<NS_edm, doc, schema, litVars, filterVars, queryVars, ext, clientVars, viewVars>>

Return(i) ==
    /\ pc[i] = "annotation"
    /\ todo[i] = << >>
    /\ pc' = [pc EXCEPT ![i] = "done"]
    /\ UNCHANGED <<NS_edm, doc, schema, metadata, todo, litVars, filterVars,
                   queryVars, ext, clientVars, viewVars>>

ParseNext ==
    \E i \in Invocations :
        \/ Resolve(i) \/ EntityTypes(i) \/ Associations(i) \/ Container(i)
        \/ BeginAnnotations(i) \/ AnnotationStep(i) \/ Return(i)

ParseInit ==
    /\ NS_edm \in {SchemaUris[k] : k \in 1..Len(SchemaUris)}
    /\ \E d \in Documents : doc = [i \in Invocations |-> IF i = 1 THEN d ELSE NoDoc]
    /\ pc = [i \in Invocations |-> IF i = 1 THEN "start" ELSE "idle"]
    /\ schema = [i \in Invocations |-> None]
    /\ metadata = [i \in Invocations |-> ServiceMetadata]
    /\ todo = [i \in Invocations |-> << >>]
    /\ LitIdle /\ FilterIdle /\ QueryIdle /\ ExtIdle /\ ClientIdle /\ ViewIdle

SpecParse == ParseInit /\ [][ParseNext]_vars

ConcInit ==
    /\ NS_edm = NS_edm_loaded
    /\ doc \in [Invocations -> ConcDocuments]
    /\ pc = [i \in Invocations |-> "start"]
    /\ schema = [i \in Invocations |-> None]
    /\ metadata = [i \in Invocations |-> ServiceMetadata]
    /\ todo = [i \in Invocations |-> << >>]
    /\ LitIdle /\ FilterIdle /\ QueryIdle /\ ExtIdle /\ ClientIdle /\ ViewIdle

SpecConc == ConcInit /\ [][ParseNext]_vars

\* the documents parsed one after the other: one per schema namespace, one
\* with two schemas, one without a schema
SeqDocuments ==
    ConcDocuments
    \cup {Document(<< >>),
          Document(<<SchemaElem(NS_edm_2006, s_Id,
                        << AnnotationsElem(NS_edm_2006, Some(s_Orders),
                              << AnnotationElem(NS_edm_2006, s_UI_Hidden, << >>,
                                                << <<"Bool", s_true>> >>, << >>) >>) >>),
                     SchemaElem(NS_edm_2009, s_Missing, << >>)>>)}

\* the earlier call has returned or raised: the next call is made
NextCall ==
    /\ pc[1] = "wait"
    /\ pc[2] \in {"done", "raised"}
    /\ pc' = [pc EXCEPT ![1] = "start"]
    /\ UNCHANGED <<NS_edm, doc, schema, metadata, todo, litVars, filterVars,
                   queryVars, ext, clientVars, viewVars>>

\* SpecSeq: in a process that has just loaded the module, parse_metadata is
\* called on one document and, once that call has ended, on another
SeqInit ==
    /\ NS_edm = NS_edm_loaded
    /\ doc \in [Invocations -> SeqDocuments]
    /\ pc = [i \in Invocations |-> IF i = 1 THEN "wait" ELSE "start"]
    /\ schema = [i \in Invocations |-> None]
    /\ metadata = [i \in Invocations |-> ServiceMetadata]
    /\ todo = [i \in Invocations |-> << >>]
    /\ LitIdle /\ FilterIdle /\ QueryIdle /\ ExtIdle /\ ClientIdle /\ ViewIdle

SeqNext == ParseNext \/ NextCall

SpecSeq == SeqInit /\ [][SeqNext]_vars

\* a parse run alone ends with what parse_metadata computes
ParseAgrees ==
    /\ pc[1] = "done" => metadata[1] = parse_metadata(doc[1]).metadata
    /\ pc[1] = "raised" => parse_metadata(doc[1]).raised

(***************************************************************************)
(* SpecExtract: _extract_annotation_value is called on one element (an     *)
(* Annotation) of a block in namespace ns; the calls it makes run one at   *)
(* a time, depth first, until none is left and it returns.                 *)
(***************************************************************************)
\* the inline value attributes of a PropertyValue: none, one, and several
InlineChoices ==
    {<< >>,
     << <<"String", s_Name>> >>,
     << <<"Bool", <<"T","r","u","e">> >> >>,
     << <<"String", s_Name>>, <<"Bool", s_true>> >>,
     << <<"Path", s_Id>>, <<"Int", s_10>> >>,
     << <<"String", << >> >>, <<"Path", s_Id>> >>}

\* child scalar elements: with text, without text, a Bool
SimpleKids ==
    {Elem(NS_EDM_V4, "String", << >>, Some(<<" ">> \o s_Name \o <<"\n">>), << >>),
     Elem(NS_EDM_V4, "String", << >>, None, << >>),
     Elem(NS_EDM_V4, "Bool", << >>, Some(s_true), << >>)}

CollectionElem(kids) == Elem(NS_EDM_V4, "Collection", << >>, None, kids)

RECURSIVE KidChoices(_)
\* the children of an Annotation or PropertyValue, with records and
\* collections nested to depth d
KidChoices(d) ==
    IF d = 0 THEN {<< >>} \cup {<<k>> : k \in SimpleKids}
    ELSE LET inner == KidChoices(d - 1)
             records == {RecordElem(NS_EDM_V4, s_Foo,
                             <<PropertyValueElem(NS_EDM_V4, s_Name, inline, kids)>>) :
                           inline \in InlineChoices, kids \in inner}
             plain == RecordElem(NS_EDM_V4, << >>,
                          << PropertyValueElem(NS_EDM_V4, s_Name, << <<"String", s_Id>> >>, << >>),
                             PropertyValueElem(NS_EDM_V4, << >>, << <<"String", s_Id>> >>, << >>),
                             PropertyValueElem(NS_EDM_V4, s_Name, << <<"Bool", s_false>> >>, << >>) >>)
             text == Elem(NS_EDM_V4, "PropertyPath", << >>, Some(s_Id), << >>)
         IN  KidChoices(0)
             \cup {<<r>> : r \in records}
             \cup {<<CollectionElem(<<text, plain>>)>>, <<CollectionElem(<< >>)>>}
             \cup {<<CollectionElem(<<RecordElem(NS_EDM_V4, << >>,
                         <<PropertyValueElem(NS_EDM_V4, s_Name, << >>, kids)>>), text>>)>> :
                     kids \in inner}
             \cup {<<Elem(NS_EDM_V4, "String", << >>, None, << >>), plain>>,
                   <<CollectionElem(<<text>>), plain>>,
                   <<plain, Elem(NS_edm_2008, "String", << >>, Some(s_Id), << >>)>>}

ExtractInputs ==
    {AnnotationElem(NS_EDM_V4, s_UI_Hidden, << >>, inline, kids) :
       inline \in {<< >>, << <<"String", s_Name>> >>, << <<"EnumValue", s_Id>> >>},
       kids \in KidChoices(MaxDepth)}

\* a call of the frame, depth calls deep on the interpreter's stack
Called(frame, depth) ==
    [fn |-> frame.fn, elem |-> frame.elem, ns |-> frame.ns, depth |-> depth]

ExtInit ==
    /\ \E elem \in ExtractInputs, ns \in {NS_EDM_V4, NS_edm_2008} :
           ext = [elem |-> elem, ns |-> ns, edm |-> NS_edm_2008,
                  stack |-> <<Called(Frame("extract", elem, ns), 1)>>,
                  value |-> VNone, pc |-> "run"]
    /\ LitIdle /\ FilterIdle /\ QueryIdle /\ ParseIdle /\ ClientIdle /\ ViewIdle

\* the calls the function of a frame makes
CalleesOf(frame) ==
    CASE frame.fn = "extract" -> ExtractCallees(frame.elem, frame.ns, ext.edm)
      [] frame.fn = "record" -> RecordCallees(frame.elem, frame.ns, ext.edm)
      [] frame.fn = "collection" -> CollectionCallees(frame.elem.kids, frame.ns)

\* the function fn runs: the calls it makes are one deeper than itself, and
\* the interpreter lets it make them only below its recursion limit
Call(fn, callees) ==
    /\ ext.pc = "run"
    /\ ext.stack # << >>
    /\ Head(ext.stack).fn = fn
    /\ callees = << >> \/ Head(ext.stack).depth < RecursionLimit
    /\ ext' = [ext EXCEPT !.stack =
                  [i \in DOMAIN callees |->
                      Called(callees[i], Head(ext.stack).depth + 1)]
                  \o Tail(ext.stack)]
    /\ UNCHANGED <<litVars, filterVars, queryVars, parseVars, clientVars, viewVars>>

\* a call at the recursion limit makes a call: the interpreter raises
\* RecursionError, which no function of the extraction catches
RecursionError ==
    /\ ext.pc = "run"
    /\ ext.stack # << >>
    /\ Head(ext.stack).depth >= RecursionLimit
    /\ CalleesOf(Head(ext.stack)) # << >>
    /\ ext' = [ext EXCEPT !.stack = << >>, !.pc = "raised"]
    /\ UNCHANGED <<litVars, filterVars, queryVars, parseVars, clientVars, viewVars>>

ExtractCall ==
    Call("extract",
         ExtractCallees(Head(ext.stack).elem, Head(ext.stack).ns, ext.edm))

RecordCall ==
    Call("record",
         RecordCallees(Head(ext.stack).elem, Head(ext.stack).ns, ext.edm))

CollectionCall ==
    Call("collection",
         CollectionCallees(Head(ext.stack).elem.kids, Head(ext.stack).ns))

ExtractReturn ==
    /\ ext.pc = "run"
    /\ ext.stack = << >>
    /\ ext' = [ext EXCEPT
                 !.value = _extract_annotation_value(ext.elem, ext.ns, ext.edm),
                 !.pc = "done"]
    /\ UNCHANGED <<litVars, filterVars, queryVars, parseVars, clientVars, viewVars>>

ExtractNext ==
    ExtractCall \/ RecordCall \/ CollectionCall \/ RecursionError \/ ExtractReturn

SpecExtract == ExtInit /\ [][ExtractNext]_vars

\* a call that is still to run does run: the interpreter goes on executing
\* the function it is in
SpecExtractLive ==
    SpecExtract
    /\ WF_vars(ExtractCall \/ RecordCall \/ CollectionCall \/ RecursionError)

(***************************************************************************)
(* Claims about the query builder (SpecQuery, SpecExec).                   *)
(***************************************************************************)
s_C1Expected ==
    <<"$","f","i","l","t","e","r","=","C","a","r","r","i","e","r","I","d"," ",
      "e","q"," ","'","L","H","'"," ","a","n","d"," ","P","r","i","c","e"," ",
      "g","t"," ","1","0","0","&","$","t","o","p","=","5","&","$","f","o","r",
      "m","a","t","=","j","s","o","n">>

\* Query("Flights").filter(F.eq("CarrierId","LH") & F.gt("Price",100)).top(5),
\* the two setters called once each, in either order
C1_Built ==
    /\ q.entity_set = s_Flights
    /\ hist = [NoHist EXCEPT !.filter = Some(FlightsFilter), !.top = Some(5),
                             !.calls = 2]

\* C1: for that query build() returns exactly
\* $filter=CarrierId eq 'LH' and Price gt 100&$top=5&$format=json
C1_DeterministicBuild == C1_Built => build(q) = s_C1Expected

RECURSIVE SplitOn(_, _)
\* s.split(c)
SplitOn(s, c) ==
    LET at == {i \in DOMAIN s : s[i] = c}
    IN  IF at = {} THEN <<s>>
        ELSE LET i == CHOOSE k \in at : \A m \in at : k <= m
             IN  <<SubSeq(s, 1, i - 1)>> \o SplitOn(SubSeq(s, i + 1, Len(s)), c)

\* the name=value pieces of a query string
Pieces(qs) == IF qs = << >> THEN << >> ELSE SplitOn(qs, "&")
NameOf(piece) == SplitOn(piece, "=")[1]

FixedOrder ==
    << <<"$","s","e","l","e","c","t">>, <<"$","f","i","l","t","e","r">>,
       <<"$","e","x","p","a","n","d">>, <<"$","o","r","d","e","r","b","y">>,
       <<"$","t","o","p">>, <<"$","s","k","i","p">>, <<"$","c","o","u","n","t">>,
       <<"$","f","o","r","m","a","t">> >>

FixedIndex(name) == CHOOSE i \in DOMAIN FixedOrder : FixedOrder[i] = name

\* the setter of the i-th fixed parameter was called (format has a default)
WasSet(h, i) ==
    CASE i = 1 -> h.select # << >>
      [] i = 2 -> h.filter # None
      [] i = 3 -> h.expand # << >>
      [] i = 4 -> h.orderby # << >>
      [] i = 5 -> h.top # None
      [] i = 6 -> h.skip # None
      [] i = 7 -> h.count # None
      [] i = 8 -> TRUE

s_count_true == <<"$","c","o","u","n","t","=","t","r","u","e">>
s_format_json == <<"$","f","o","r","m","a","t","=","j","s","o","n">>

Range(f) == {f[i] : i \in DOMAIN f}

QueryStringOrdered(qs, h, count_only) ==
    LET ps == Pieces(qs)
        names == [i \in DOMAIN ps |-> NameOf(ps[i])]
        nc == Len(h.custom)
        nf == Len(ps) - nc
    IN  /\ nf >= 0
        /\ qs = << >> \/ qs[1] \notin {"&", "?"}
        /\ \A i \in DOMAIN ps : Contains(ps[i], "=")
        /\ \A i \in 1..nf : /\ names[i] \in Range(FixedOrder)
                            /\ WasSet(h, FixedIndex(names[i]))
        /\ \A i \in 1..(nf - 1) : FixedIndex(names[i]) < FixedIndex(names[i + 1])
        /\ \A i \in 1..nc : names[nf + i] = h.custom[i][1]
        /\ \A i \in 1..nf : names[i] = FixedOrder[7] => ps[i] = s_count_true
        /\ count_only => FixedOrder[8] \notin Range(names)
        /\ (~count_only /\ h.format = None) => s_format_json \in Range(ps)

CountRequested == last.op = "get_count" /\ sent # << >>

\* C2: build() lists the parameters in the order select, filter, expand, orderby,
\* top, skip, count, format, then the extras in the order custom() was called,
\* whatever the order of the setter calls; it has no leading separator, holds
\* only parameters that were set (format defaults to json and is left out in
\* count-only mode), and the count flag reads $count=true.
C2_BuildOrder ==
    /\ QueryStringOrdered(build(q), hist, FALSE)
    /\ CountRequested => QueryStringOrdered(sent[1].qs, hist, TRUE)

C2_Witness ==
    /\ hist.calls = 3
    /\ hist.custom # << >> /\ hist.count = Some(TRUE) /\ hist.select # << >>
    /\ Len(Pieces(build(q))) = 4
    /\ CountRequested /\ Len(Pieces(sent[1].qs)) = 3

KeyClauseExpected(h) ==
    IF h.key = None THEN << >>
    ELSE LET single == h.key[1][1]
             named == h.key[1][2]
         IN  IF single # None
             THEN <<"(">> \o _format_key_literal(single[1]) \o <<")">>
             ELSE <<"(">>
                  \o Join(<<",">>, [i \in DOMAIN named |->
                        named[i][1] \o <<"=">> \o _format_key_literal(named[i][2])])
                  \o <<")">>

PathExpected(h, entity_set, count_only) ==
    entity_set
    \o KeyClauseExpected(h)
    \o (IF h.nav # << >> THEN <<"/">> \o Join(<<"/">>, Flatten(h.nav)) ELSE << >>)
    \o (IF h.action # None THEN <<"/">> \o h.action[1] ELSE << >>)
    \o (IF count_only THEN <<"/","$","c","o","u","n","t">> ELSE << >>)

s_C3Expected ==
    <<"F","l","i","g","h","t","s","(","C","a","r","r","i","e","r","I","d","=",
      "'","L","H","'",")","/","t","o","_","B","o","o","k","i","n","g","s">>

\* Query("Flights").key(CarrierId="LH").nav("to_Bookings")
C3_Built ==
    /\ q.entity_set = s_Flights
    /\ hist = [NoHist EXCEPT
                 !.key = Some(<<None, << <<s_CarrierId, PyStr(s_LH)>> >> >>),
                 !.nav = <<<<s_to_Bookings>>>>, !.calls = 2]

\* C3: build_path() is the collection name, the key clause if a key is set (one
\* literal, or comma-joined name=literal pairs in declared order), the
\* navigation segments joined by "/", the action segment if set, and "/$count"
\* in count-only mode, in that order; the Flights example yields exactly
\* Flights(CarrierId='LH')/to_Bookings.
C3_BuildPath ==
    /\ build_path(q) = PathExpected(hist, q.entity_set, FALSE)
    /\ CountRequested =>
         sent[1].path = q.service_path[1] \o <<"/">> \o PathExpected(hist, q.entity_set, TRUE)
    /\ C3_Built => build_path(q) = s_C3Expected

C3_Witness ==
    /\ CountRequested
    /\ hist.key # None /\ hist.nav # << >> /\ hist.action # None
    /\ sent[1].path = q.service_path[1] \o <<"/">> \o PathExpected(hist, q.entity_set, TRUE)

RECURSIVE ApplyEach(_, _, _)
\* the setter Op called once per element of argss, in order
ApplyEach(Op(_, _), self, argss) ==
    IF argss = << >> THEN self
    ELSE ApplyEach(Op, Op(self, Head(argss)), Tail(argss))

CustomPair(self, c) == Query_custom(self, c[1], c[2])
KeyCall(self, c) == Query_key(self, c[1], c[2])

\* the calls recorded in h made field by field on a fresh Query with the
\* binding of self
Replayed(self, h) ==
    LET q0 == [Query(self.entity_set) EXCEPT !.service_path = self.service_path,
                                             !.client = self.client]
        q1 == ApplyEach(Query_select, q0, h.select)
        q2 == ApplyEach(Query_filter, q1, h.filter)
        q3 == ApplyEach(Query_expand, q2, h.expand)
        q4 == ApplyEach(Query_orderby, q3, h.orderby)
        q5 == ApplyEach(Query_top, q4, h.top)
        q6 == ApplyEach(Query_skip, q5, h.skip)
        q7 == ApplyEach(Query_count, q6, h.count)
        q8 == ApplyEach(Query_format, q7, h.format)
        q9 == ApplyEach(KeyCall, q8, h.key)
        q10 == ApplyEach(Query_nav, q9, h.nav)
        q11 == ApplyEach(Query_action, q10, h.action)
    IN  ApplyEach(CustomPair, q11, h.custom)

\* C4: list fields hold the concatenation of their calls' arguments in call
\* order and scalar fields the argument of their last call, so the Query, its
\* build() and its build_path() are those of the same calls made field by field.
C4_SettersIndependent ==
    /\ q.select = Flatten(hist.select)
    /\ q.expand = Flatten(hist.expand)
    /\ q.orderby = Flatten(hist.orderby)
    /\ q.nav = Flatten(hist.nav)
    /\ q.custom = hist.custom
    /\ q.filter = hist.filter
    /\ q.top = hist.top
    /\ q.skip = hist.skip
    /\ q.count = (IF hist.count = None THEN FALSE ELSE hist.count[1])
    /\ q.format = (IF hist.format = None THEN s_json ELSE hist.format[1])
    /\ q.action_name = hist.action
    /\ (q.keys = None) = (hist.key = None)
    /\ q = Replayed(q, hist)
    /\ build(q) = build(Replayed(q, hist))
    /\ build_path(q) = build_path(Replayed(q, hist))

C4_Witness ==
    /\ Len(hist.select) = 2 /\ hist.select[1] # hist.select[2]
    /\ hist.top # None
    /\ q.select = hist.select[1] \o hist.select[2]

\* C5: a Query holds one key specification, positional or named, never both: a
\* positional value given with named fields is kept and the named fields are
\* dropped, each key() call replaces the earlier specification, and build_path()
\* never mixes a positional literal with name=literal pairs.
C5_OneKeySpec ==
    hist.key # None =>
        LET single == hist.key[1][1]
            named == hist.key[1][2]
        IN  /\ q.keys # None
            /\ DictHas(q.keys[1], s__single__) => Len(q.keys[1]) = 1
            /\ single # None => q.keys[1] = << <<s__single__, single[1]>> >>
            /\ single = None => q.keys[1] = named
            /\ single # None =>
                 KeyClause(q) = <<"(">> \o _format_key_literal(single[1]) \o <<")">>
            /\ single = None => KeyClause(q) = KeyClauseExpected(hist)

C5_Witness ==
    /\ hist.key # None /\ hist.key[1][1] # None /\ Len(hist.key[1][2]) = 2
    /\ q.keys = Some(<< <<s__single__, hist.key[1][1][1]>> >>)
    /\ hist.calls >= 2

ExecOps == {"execute", "execute_all", "get_count", "execute_action"}

Unbound(self) == ~self.client \/ self.service_path = None

\* C6: every execute-style call on a Query not bound to a client and service
\* path ends with the configuration error (RuntimeError), hands no request to
\* the client and leaves every builder field as it was; execute_action on a
\* bound Query whose action was never set ends with the configuration error
\* before any request.
C6_ConfigErrors ==
    [][/\ (last'.op \in ExecOps /\ Unbound(q)) =>
             (last'.err = "RuntimeError" /\ sent' = << >> /\ q' = q)
       /\ (last'.op = "execute_action" /\ ~Unbound(q) /\ hist.action = None) =>
             (last'.err = "RuntimeError" /\ sent' = << >> /\ q' = q)]_vars

C6_Witness ==
    /\ Unbound(q) /\ hist.calls >= 1
    /\ last = [op |-> "get_count", err |-> "RuntimeError"]
    /\ sent = << >>

(***************************************************************************)
(* Claims about literal formatting (SpecLit).                              *)
(***************************************************************************)
\* the canonical GUID shape: 8-4-4-4-12 hexadecimal digits, either case
CanonicalGuid(s) ==
    /\ Len(s) = 36
    /\ \A i \in 1..36 : IF i \in {9, 14, 19, 24} THEN s[i] = "-"
                        ELSE s[i] \in Digits \cup HexLetters

\* an ISO date, or date and time, optionally ending in Z
IsoDateShape(s) ==
    /\ Len(s) \in {10, 19, 20}
    /\ \A i \in 1..Len(s) :
         CASE i \in {5, 8} -> s[i] = "-"
           [] i = 11 -> s[i] = "T"
           [] i \in {14, 17} -> s[i] = ":"
           [] i = 20 -> s[i] = "Z"
           [] OTHER -> s[i] \in Digits

Dialects == {"A", "B"}

\* the GUID literal the two dialects are said to use
DialectGuid(d, s) == IF d = "A" THEN <<"g","u","i","d","'">> \o s \o <<"'">> ELSE s

\* the date literal the two dialects are said to use for a date without a time
DialectDate(d, s) ==
    IF d = "A"
    THEN <<"d","a","t","e","t","i","m","e","'">> \o s
         \o <<"T","0","0",":","0","0",":","0","0","'">>
    ELSE s

FilterText(lit) == s_CarrierId \o <<" ","e","q"," ">> \o lit
PathText(lit) == s_Flights \o <<"(">> \o lit \o <<")">>
PathNamedText(lit) == s_Flights \o <<"(">> \o s_CarrierId \o <<"=">> \o lit \o <<")">>

GuidFormatted == litPc = "done" /\ litIn.kind = "str" /\ CanonicalGuid(litIn.s)

DateFormatted == litPc = "done" /\ litIn = PyStr(s_date)

RECURSIVE Undouble(_)
\* the text whose single quotes, doubled, give body; <<"!">> when body holds a
\* single quote that is not doubled
Undouble(body) ==
    IF body = << >> THEN << >>
    ELSE IF Head(body) # "'" THEN <<Head(body)>> \o Undouble(Tail(body))
    ELSE IF Len(body) >= 2 /\ body[2] = "'" THEN <<"'">> \o Undouble(Tail(Tail(body)))
    ELSE <<"!">>

QuotedOf(out, s) ==
    /\ Len(out) >= 2
    /\ out[1] = "'" /\ out[Len(out)] = "'"
    /\ Undouble(SubSeq(out, 2, Len(out) - 1)) = s
    /\ Len(out) = Len(s) + 2 + Cardinality({i \in DOMAIN s : s[i] = "'"})

RECURSIVE DecimalValue(_)
DecimalValue(ds) ==
    IF ds = << >> THEN 0
    ELSE 10 * DecimalValue(SubSeq(ds, 1, Len(ds) - 1))
         + CHOOSE d \in 0..9 : DigitChar(d) = ds[Len(ds)]

IsDecimalOf(out, n) ==
    LET ds == IF n < 0 THEN Tail(out) ELSE out
    IN  /\ out # << >>
        /\ (n < 0) = (out[1] = "-")
        /\ ds # << >> /\ \A i \in DOMAIN ds : ds[i] \in Digits
        /\ DecimalValue(ds) = IF n < 0 THEN 0 - n ELSE n

\* C9: the key-literal formatter returns the same text as the filter-literal
\* formatter for every null, boolean, integer, float and string; booleans give
\* true/false, null gives null, integers give decimal, and every string that is
\* neither GUID-shaped nor date-shaped gives the single-quoted text with its
\* single quotes doubled.
C9_LiteralsAgree ==
    litPc = "done" =>
        /\ litOut.keylit = litOut.lit
        /\ litIn.kind = "bool" =>
             litOut.lit = IF litIn.b THEN <<"t","r","u","e">> ELSE <<"f","a","l","s","e">>
        /\ litIn.kind = "NoneType" => litOut.lit = <<"n","u","l","l">>
        /\ litIn.kind = "int" => IsDecimalOf(litOut.lit, litIn.n)
        /\ (litIn.kind = "str" /\ ~CanonicalGuid(litIn.s) /\ ~IsoDateShape(litIn.s)) =>
             QuotedOf(litOut.lit, litIn.s)

(***************************************************************************)
(* Claims about the filter algebra (SpecFilter).                           *)
(***************************************************************************)
C10_Texts ==
    /\ fop.op = "and" =>
         exprs[fop.res] = fop.atext \o <<" ","a","n","d"," ">> \o fop.btext
    /\ fop.op = "or" =>
         exprs[fop.res] = <<"(">> \o fop.atext \o <<" ","o","r"," ">> \o fop.btext \o <<")">>
    /\ fop.op = "not" =>
         exprs[fop.res] = <<"n","o","t"," ","(">> \o fop.atext \o <<")">>
    /\ fop.op \in {"and", "or", "not"} =>
         exprs[fop.a] = fop.atext /\ exprs[fop.b] = fop.btext

C10_Frame == \A i \in DOMAIN exprs : i \in DOMAIN exprs' /\ exprs'[i] = exprs[i]

\* C10: a & b has the text '<a> and <b>' with no added parentheses, a | b the
\* text '(<a> or <b>)', ~a the text 'not (<a>)', and no operator changes the
\* text of an existing expression.
C10_FilterAlgebra == [](C10_Texts) /\ [][C10_Frame]_vars

\* a conjunction whose left operand is a disjunction has been built
C10_Witness ==
    /\ fop.op = "and"
    /\ fop.atext # << >> /\ fop.atext[1] = "("
    /\ exprs[fop.res] = fop.atext \o <<" ","a","n","d"," ">> \o fop.btext

(***************************************************************************)
(* C11: the string predicates.                                             *)
(***************************************************************************)
s_startswith == <<"s","t","a","r","t","s","w","i","t","h">>
s_endswith == <<"e","n","d","s","w","i","t","h">>
s_contains == <<"c","o","n","t","a","i","n","s">>
s_substringof == <<"s","u","b","s","t","r","i","n","g","o","f">>

\* text is name(field,'v') where 'v' is value with its single quotes doubled
PredicateText(name, field, value, text) ==
    LET head == name \o <<"(">> \o field \o <<",">>
    IN  /\ Len(text) > Len(head) + 1
        /\ SubSeq(text, 1, Len(head)) = head
        /\ text[Len(text)] = ")"
        /\ QuotedOf(SubSeq(text, Len(head) + 1, Len(text) - 1), value)

\* text is name('v',field): the arguments reversed
ReversedText(name, field, value, text) ==
    LET tail == <<",">> \o field \o <<")">>
        n == Len(text) - Len(tail)
    IN  /\ n > Len(name) + 1
        /\ SubSeq(text, 1, Len(name) + 1) = name \o <<"(">>
        /\ SubSeq(text, n + 1, Len(text)) = tail
        /\ QuotedOf(SubSeq(text, Len(name) + 2, n), value)

StrFnName == CASE fop.op = "startswith" -> s_startswith
               [] fop.op = "endswith" -> s_endswith
               [] fop.op = "contains" -> s_contains
               [] OTHER -> << >>

StrFnMade == fop.op \in {"startswith", "endswith", "contains"}

SchemaSpaceOf(root) == root.kids[1].kids[1].ns

Returned(i) == pc[i] = "done"

\* C12: two parse_metadata invocations that run concurrently on documents
\* whose schemas use different namespace URIs each return the ServiceMetadata
\* they return when run alone, under every interleaving.
C12_Isolated ==
    \A i \in Invocations, j \in Invocations :
        (/\ Returned(i)
         /\ SchemaSpaceOf(doc[i]) # SchemaSpaceOf(doc[j]))
        => metadata[i] = parse_metadata(doc[i]).metadata


\* the URI a parse resolved is the first of the three, in the fixed order,
\* under which the document has a Schema, and the later lookups of the parse
\* are made under it
ResolvedFirst ==
    (pc[1] \in {"entity_types", "associations", "container", "annotations", "annotation"})
    => /\ ResolvedIndex(doc[1]) # 0
       /\ NS_edm = SchemaUris[ResolvedIndex(doc[1])]
       /\ schema[1] # None /\ schema[1][1].ns = NS_edm
       /\ \A k \in 1..(ResolvedIndex(doc[1]) - 1) :
              \A e \in Range(Descendants(doc[1])) :
                  ~(e.ns = SchemaUris[k] /\ e.tag = "Schema")

\* C13: parse_metadata tries the three namespace URIs in a fixed order and
\* uses the first that matches a schema root for every later lookup, and no
\* module-level state has a different value after parse_metadata returns than
\* before it was called: no step of a parse changes NS["edm"].
C13_NoSharedState == [](ResolvedFirst) /\ [][NS_edm' = NS_edm]_vars


\* an annotation element is being processed in this step of invocation 1
Processing == pc[1] = "annotation" /\ todo[1] # << >> /\ todo'[1] = Tail(todo[1])
\* the element processed, the namespace of its block, the block's short target
ProcElem == Head(todo[1])[3]
ProcSpace == Head(todo[1])[1]
ProcTarget == Head(todo[1])[2]
ProcTerm == GetOr(ProcElem, "Term", << >>)
ProcValue == _extract_annotation_value(ProcElem, ProcSpace, NS_edm)

Flags == {"creatable", "updatable", "deletable"}

\* the restriction term, and the field of its record, that govern a flag
TermOfFlag(flag) ==
    CASE flag = "creatable" -> s_InsertRestrictions
      [] flag = "updatable" -> s_UpdateRestrictions
      [] flag = "deletable" -> s_DeleteRestrictions
FieldOfFlag(flag) ==
    CASE flag = "creatable" -> s_Insertable
      [] flag = "updatable" -> s_Updatable
      [] flag = "deletable" -> s_Deletable

\* the term is the restriction term, bare or after a vocabulary namespace
IsTerm(term, name) ==
    \/ term = name
    \/ /\ Len(term) > Len(name)
       /\ SubSeq(term, Len(term) - Len(name) + 1, Len(term)) = name
       /\ term[Len(term) - Len(name)] = "."

\* the part of a target before its first path separator
SetNameOf(target) ==
    IF \E k \in DOMAIN target : target[k] = "/"
    THEN SubSeq(target, 1, Min({k \in DOMAIN target : target[k] = "/"}) - 1)
    ELSE target

FlagOf(es, flag) ==
    CASE flag = "creatable" -> es.creatable
      [] flag = "updatable" -> es.updatable
      [] flag = "deletable" -> es.deletable

C14_Step ==
    Processing =>
        LET before == metadata[1].entity_sets
            after == metadata'[1].entity_sets
            changed == {<<k, flag>> \in (DOMAIN before) \X Flags :
                           FlagOf(after[k], flag) # FlagOf(before[k], flag)}
        IN  /\ DOMAIN after = DOMAIN before
            /\ \A k \in DOMAIN before :
                   /\ after[k].name = before[k].name
                   /\ after[k].entity_type = before[k].entity_type
                   /\ after[k].addressable = before[k].addressable
            /\ Cardinality(changed) <= 1
            /\ \A c \in changed :
                   /\ IsTerm(ProcTerm, TermOfFlag(c[2]))
                   /\ before[c[1]].name = SetNameOf(ProcTarget)
                   /\ ProcValue.kind = "dict"
                   /\ DictHas(ProcValue.items, FieldOfFlag(c[2]))
            /\ (/\ IsTerm(ProcTerm, s_InsertRestrictions)
                /\ SetNameOf(ProcTarget) = s_Orders
                /\ ProcValue.kind = "dict"
                /\ DictHas(ProcValue.items, s_Insertable)
                /\ DictGet(ProcValue.items, s_Insertable) = VBool(FALSE))
               => \E k \in DOMAIN before :
                      /\ before[k].name = s_Orders
                      /\ ~after[k].creatable
                      /\ after[k].updatable = before[k].updatable
                      /\ after[k].deletable = before[k].deletable

\* C14: a capability-restriction annotation changes only the matching flag of
\* the one entity set named by the part of the target before its first path
\* separator, and only when the record carries the corresponding field; all
\* other flags of all entity sets keep their values.  Insertable=false on
\* Orders sets Orders.creatable to false and leaves updatable and deletable.
C14_RestrictionFrame == [][C14_Step]_vars

\* the parse of a document with Insertable=false on Orders has applied it
C14_Witness ==
    /\ pc[1] = "annotation" /\ todo[1] = << >>
    /\ DictHas(metadata[1].annotations, s_Orders)
    /\ \E k \in DOMAIN metadata[1].entity_sets :
           /\ metadata[1].entity_sets[k].name = s_Orders
           /\ ~metadata[1].entity_sets[k].creatable
           /\ metadata[1].entity_sets[k].updatable
           /\ metadata[1].entity_sets[k].deletable

(***************************************************************************)
(* Claims about annotation value extraction (SpecExtract).                 *)
(***************************************************************************)
Extracted == ext.pc = "done"

ScalarAttrs == {"String", "Bool", "EnumMember", "Int", "Path", "EnumValue"}
ScalarTags == {"String", "Bool", "Int", "Path", "EnumMember"}

HasInlineScalar(elem) == \E a \in ScalarAttrs : DictHas(elem.attrs, a)
KidsTagged(elem, tags) == {k \in DOMAIN elem.kids : elem.kids[k].tag \in tags}
FirstKid(elem, tag) == elem.kids[Min(KidsTagged(elem, {tag}))]

IsScalar(v) == v.kind \in {"str", "bool"}

\* the names that exactly one PropertyValue of a record carries
NamedOnce(record) ==
    {name \in {GetOr(record.kids[k], "Property", << >>) :
                   k \in KidsTagged(record, {"PropertyValue"})} :
        /\ name # << >>
        /\ Cardinality({k \in KidsTagged(record, {"PropertyValue"}) :
                           GetOr(record.kids[k], "Property", << >>) = name}) = 1}

PropertyValueNamed(record, name) ==
    record.kids[CHOOSE k \in KidsTagged(record, {"PropertyValue"}) :
                    GetOr(record.kids[k], "Property", << >>) = name]

\* C15: the value of an element is its inline scalar attribute when it has
\* one; else its child scalar element; else its nested record; else its
\* nested collection.  A record is the mapping of its named property-values,
\* each resolved by the same rules; a collection is its items in document
\* order.
C15_Preference ==
    Extracted =>
        LET elem == ext.elem
            v == ext.value
        IN  /\ HasInlineScalar(elem) => IsScalar(v)
            /\ (~HasInlineScalar(elem) /\ KidsTagged(elem, ScalarTags) # {})
               => v.kind \notin {"dict", "list"}
            /\ (/\ ~HasInlineScalar(elem) /\ KidsTagged(elem, ScalarTags) = {}
                /\ KidsTagged(elem, {"Record"}) # {})
               => /\ v.kind = "dict"
                  /\ \A name \in NamedOnce(FirstKid(elem, "Record")) :
                         /\ DictHas(v.items, name)
                         /\ DictGet(v.items, name) =
                              _extract_annotation_value(
                                  PropertyValueNamed(FirstKid(elem, "Record"), name),
                                  NS_EDM_V4, ext.edm)
            /\ (/\ ~HasInlineScalar(elem) /\ KidsTagged(elem, ScalarTags) = {}
                /\ KidsTagged(elem, {"Record"}) = {}
                /\ KidsTagged(elem, {"Collection"}) # {})
               => /\ v.kind = "list"
                  /\ Len(v.items) = Len(FirstKid(elem, "Collection").kids)
                  /\ \A k \in DOMAIN v.items :
                         LET kid == FirstKid(elem, "Collection").kids[k]
                         IN  IF kid.tag = "Record" THEN v.items[k][2].kind = "dict"
                             ELSE v.items[k][2] = VStr(TextOf(kid))


\* none of the recognised shapes: no inline scalar attribute and no child
\* scalar element, record or collection
NoShape(elem) ==
    /\ ~HasInlineScalar(elem)
    /\ KidsTagged(elem, ScalarTags \cup {"Record", "Collection"}) = {}

RECURSIVE Depth(_)
\* the number of element levels below an element
Depth(elem) ==
    IF elem.kids = << >> THEN 0
    ELSE 1 + Max({Depth(elem.kids[k]) : k \in DOMAIN elem.kids})

\* C16: annotation value extraction terminates on every finite element tree,
\* however deeply records and collections are nested: the calls it makes
\* come to an end.  It has no raising outcome, and when none of the
\* recognised shapes matches the value it returns is Absent (None).
C16_Terminates ==
    /\ <>(ext.stack = << >>)
    /\ [](ext.pc # "raised")
    /\ [](Extracted /\ NoShape(ext.elem) => ext.value = VNone)


(***************************************************************************)
(* Claims about the parsed ServiceMetadata (SpecParse).                    *)
(***************************************************************************)
\* the namespaces an element of the annotation vocabulary may be written in
AnySpace == {NS_EDM_V4, NS_edm_2008, NS_edm_2006, NS_edm_2009}

\* the annotation blocks with a target below root, written in one of spaces
BlocksIn(root, spaces) ==
    SelectSeq(Descendants(root),
              LAMBDA e : /\ e.tag = "Annotations" /\ e.ns \in spaces
                         /\ GetOr(e, "Target", << >>) # << >>)

\* the annotation elements of a block
AnnotationsOf(block, spaces) ==
    SelectSeq(block.kids, LAMBDA e : e.tag = "Annotation" /\ e.ns \in spaces)

\* the Namespace attribute of the document's first schema
DeclaredNamespace(root) == GetOr(root.kids[1].kids[1], "Namespace", << >>)

\* the target of a block without a leading "schema-namespace."
ShortTarget(root, block) ==
    LET target == GetOr(block, "Target", << >>)
        lead == DeclaredNamespace(root) \o <<".">>
    IN  IF Len(lead) > 1 /\ Len(target) >= Len(lead)
           /\ SubSeq(target, 1, Len(lead)) = lead
        THEN SubSeq(target, Len(lead) + 1, Len(target))
        ELSE target

ValueListTerms == {s_ValueList_long, s_ValueList_short}
ParameterPrefixes == {s_ValueListParameter_long, s_ValueListParameter_short}
Roles == {s_InOut, s_In, s_Out, s_DisplayOnly, s_Constant, s_FilterOnly}

\* the parameter records a value-list annotation declares, in document order
DeclaredParameters(ann) ==
    LET fields == ann.kids[1].kids
        k == CHOOSE k \in DOMAIN fields :
                 GetOr(fields[k], "Property", << >>) = s_Parameters
    IN  SelectSeq(fields[k].kids[1].kids, LAMBDA e : e.tag = "Record")

\* role is the declared type without its vocabulary prefix
RoleOf(type, role) ==
    IF \E prefix \in ParameterPrefixes : \E rest \in Roles : type = prefix \o rest
    THEN \E prefix \in ParameterPrefixes : type = prefix \o role
    ELSE role = type

\* the local property the k-th declared parameter names
LocalOf(record) ==
    LET k == CHOOSE k \in DOMAIN record.kids :
                 GetOr(record.kids[k], "Property", << >>) = s_LocalDataProperty
    IN  VStr(GetOr(record.kids[k], "Path", << >>))

\* the positions of a sequence of roles that hold one of wanted, ascending
Positions(roles, wanted) == {k \in DOMAIN roles : roles[k] \in wanted}

\* f lists the members of the set of positions in ascending order
Ascending(ps) ==
    CHOOSE f \in [1..Cardinality(ps) -> ps] :
        \A a, b \in 1..Cardinality(ps) : a < b => f[a] < f[b]

\* C17: a value-list annotation, under the long or the short spelling of its
\* term, yields a ValueListInfo under its target whose parameters are the
\* declared ones in declaration order, each with the role its declared type
\* names once the vocabulary prefix is stripped; the key mappings are the
\* InOut / In parameters and the display-only entries the DisplayOnly ones,
\* in declaration order, so two InOut and one DisplayOnly parameter give two
\* key mappings and one display-only entry.
C17_ValueListParameters ==
    Returned(1) =>
        \A b \in DOMAIN BlocksIn(doc[1], {NS_EDM_V4, NS_edm}) :
            LET block == BlocksIn(doc[1], {NS_EDM_V4, NS_edm})[b]
                anns == AnnotationsOf(block, {NS_EDM_V4, NS_edm})
            IN  \A a \in DOMAIN anns :
                    GetOr(anns[a], "Term", << >>) \in ValueListTerms =>
                    LET decl == DeclaredParameters(anns[a])
                        target == ShortTarget(doc[1], block)
                    IN  /\ DictHas(metadata[1].value_lists, target)
                        /\ LET vl == DictGet(metadata[1].value_lists, target)
                               roles == [k \in DOMAIN vl.parameters |->
                                           vl.parameters[k].type]
                               keys == Positions(roles, {s_InOut, s_In})
                               shown == Positions(roles, {s_DisplayOnly})
                           IN  /\ Len(vl.parameters) = Len(decl)
                               /\ \A k \in DOMAIN decl :
                                      /\ RoleOf(GetOr(decl[k], "Type", << >>), roles[k])
                                      /\ vl.parameters[k].local_property = LocalOf(decl[k])
                               /\ Len(key_mappings(vl)) = Cardinality(keys)
                               /\ \A j \in DOMAIN key_mappings(vl) :
                                      key_mappings(vl)[j] = vl.parameters[Ascending(keys)[j]]
                               /\ Len(display_only(vl)) = Cardinality(shown)
                               /\ \A j \in DOMAIN display_only(vl) :
                                      display_only(vl)[j] = vl.parameters[Ascending(shown)[j]]
                               /\ (/\ Cardinality({k \in DOMAIN decl :
                                          RoleOf(GetOr(decl[k], "Type", << >>), s_InOut)}) = 2
                                   /\ Cardinality({k \in DOMAIN decl :
                                          RoleOf(GetOr(decl[k], "Type", << >>), s_DisplayOnly)}) = 1
                                   /\ Len(decl) = 3)
                                  => /\ Len(key_mappings(vl)) = 2
                                     /\ Len(display_only(vl)) = 1

\* a value list declared with the long prefix as InOut, DisplayOnly, InOut
\* has been returned
C17_Witness ==
    /\ Returned(1)
    /\ DictHas(metadata[1].value_lists, <<"O","r","d","e","r","/","I","d">>)
    /\ LET vl == DictGet(metadata[1].value_lists, <<"O","r","d","e","r","/","I","d">>)
       IN  /\ [k \in DOMAIN vl.parameters |-> vl.parameters[k].type]
                = <<s_InOut, s_DisplayOnly, s_InOut>>
           /\ [k \in DOMAIN key_mappings(vl) |-> key_mappings(vl)[k].local_property.s]
                = << <<"P","1">>, <<"P","3">> >>
           /\ \E b \in DOMAIN BlocksIn(doc[1], {NS_EDM_V4}) :
                  LET ann == BlocksIn(doc[1], {NS_EDM_V4})[b].kids[1]
                  IN  /\ GetOr(ann, "Term", << >>) = s_ValueList_long
                      /\ GetOr(DeclaredParameters(ann)[1], "Type", << >>)
                           = s_ValueListParameter_long \o s_InOut

\* C18: every ValueListParameter of a returned ServiceMetadata has one of the
\* six roles InOut, In, Out, DisplayOnly, Constant, FilterOnly.
C18_RoleIsOneOfSix ==
    Returned(1) =>
        \A v \in DOMAIN metadata[1].value_lists :
            LET vl == metadata[1].value_lists[v][2]
            IN  \A k \in DOMAIN vl.parameters : vl.parameters[k].type \in Roles

\* the annotations a document is to store: one <<short target, annotation>>
\* per annotation element of each block with a target, blocks and elements
\* being those written in one of spaces
Expected(root, spaces) ==
    LET blocks == BlocksIn(root, spaces)
    IN  Flatten([b \in DOMAIN blocks |->
            LET anns == AnnotationsOf(blocks[b], spaces)
            IN  [a \in DOMAIN anns |->
                    <<ShortTarget(root, blocks[b]),
                      [term |-> GetOr(anns[a], "Term", << >>),
                       qualifier |-> GetOr(anns[a], "Qualifier", << >>),
                       value |-> _extract_annotation_value(anns[a], blocks[b].ns,
                                                          NS_edm)]>>]])

\* the annotations a ServiceMetadata stores, each with the key it is under
Stored(md) ==
    Flatten([t \in DOMAIN md.annotations |->
        [a \in DOMAIN md.annotations[t][2] |->
            <<md.annotations[t][1], md.annotations[t][2][a]>>]])

Times(x, seq) == Cardinality({k \in DOMAIN seq : seq[k] = x})

\* both sequences hold the same entries the same number of times
SameEntries(s, t) ==
    /\ Len(s) = Len(t)
    /\ \A k \in DOMAIN s : Times(s[k], s) = Times(s[k], t)

\* C19 as stated: every annotation element of every annotation block with a
\* target is stored exactly once under the block's short target, with its
\* term, qualifier and resolved value, for every document.
C19_Original ==
    Returned(1) => SameEntries(Expected(doc[1], AnySpace), Stored(metadata[1]))

\* C19: when the parse resolved a schema, every annotation element of every
\* annotation block with a target (block and element written in the
\* annotation namespace or in the resolved schema namespace) is stored
\* exactly once under the block's short target, with its term, qualifier and
\* resolved value, whatever its term.
C19_StoredOnce ==
    (Returned(1) /\ schema[1] # None)
    => SameEntries(Expected(doc[1], {NS_EDM_V4, NS_edm}), Stored(metadata[1]))

\* two restriction annotations on Orders have been stored, and applied
C19_Witness ==
    /\ Returned(1) /\ schema[1] # None
    /\ DictHas(metadata[1].annotations, s_Orders)
    /\ Len(DictGet(metadata[1].annotations, s_Orders)) = 2
    /\ \E k \in DOMAIN metadata[1].entity_sets : ~metadata[1].entity_sets[k].creatable
    /\ Len(Expected(doc[1], {NS_EDM_V4, NS_edm})) = 2

\* C20: in every EntityType of a returned ServiceMetadata every key property
\* name is the name of one of its properties.
C20_KeysAreProperties ==
    Returned(1) =>
        \A t \in DOMAIN metadata[1].entity_types :
            LET et == metadata[1].entity_types[t]
            IN  \A k \in DOMAIN et.key_properties :
                    \E p \in DOMAIN et.properties :
                        et.properties[p].name = et.key_properties[k]

\* the End children of the k-th Association element of the schema
EndsOf(k) ==
    SelectSeq(SelectSeq(schema[1][1].kids, LAMBDA e : e.tag = "Association")[k].kids,
              LAMBDA e : e.tag = "End")

EndOf(end_elem) ==
    [role |-> GetOr(end_elem, "Role", << >>),
     entity_type |-> GetOr(end_elem, "Type", << >>),
     multiplicity |-> GetOr(end_elem, "Multiplicity", << >>)]

\* C21: the Association parsed from an element with n End children has the
\* first as end1 and the second as end2 and ignores the others; a missing
\* end is absent (None), and the parse of such an element does not fail.
C21_AssociationEnds ==
    /\ (pc[1] \in {"container", "annotations", "annotation", "done"} /\ schema[1] # None)
       => /\ Len(metadata[1].associations)
               = Len(SelectSeq(schema[1][1].kids, LAMBDA e : e.tag = "Association"))
          /\ \A k \in DOMAIN metadata[1].associations :
                 LET a == metadata[1].associations[k]
                     ends == EndsOf(k)
                 IN  /\ a.end1 = IF Len(ends) >= 1 THEN <<EndOf(ends[1])>> ELSE << >>
                     /\ a.end2 = IF Len(ends) >= 2 THEN <<EndOf(ends[2])>> ELSE << >>
    /\ (doc[1] \in AssociationDocs) => pc[1] # "raised"

\* an Association with three ends has been returned with its first two
C21_Witness ==
    /\ Returned(1)
    /\ Len(metadata[1].associations) = 1
    /\ Len(EndsOf(1)) = 3
    /\ metadata[1].associations[1].end2 # << >>
    /\ metadata[1].associations[1].end2[1].role = <<"R", "2">>

\* an Association with one end has been returned: end1 present, end2 absent
C21_OneEnd ==
    /\ Returned(1)
    /\ Len(metadata[1].associations) = 1
    /\ Len(EndsOf(1)) = 1
    /\ metadata[1].associations[1].end1 # << >>
    /\ metadata[1].associations[1].end2 = << >>

\* no Schema element in one of the three candidate namespaces below root
NoSchemaRoot(root) ==
    LET below == Descendants(root)
    IN  \A k \in DOMAIN below :
            ~(/\ below[k].tag = "Schema"
              /\ below[k].ns \in {NS_edm_2008, NS_edm_2006, NS_edm_2009})

\* C22: a document without a schema root under the three candidate
\* namespaces is parsed without error, and the ServiceMetadata returned has
\* an empty namespace and empty entity types, associations, entity sets,
\* function imports, annotations and value lists.
C22_NoSchemaEmpty ==
    NoSchemaRoot(doc[1]) =>
        /\ pc[1] # "raised"
        /\ Returned(1) =>
               metadata[1] = [schema_namespace |-> << >>, entity_types |-> << >>,
                              associations |-> << >>, entity_sets |-> << >>,
                              function_imports |-> << >>, annotations |-> << >>,
                              value_lists |-> << >>]

\* a document whose Schema is in the annotation namespace, with annotation
\* blocks, has been returned
C22_Witness ==
    /\ Returned(1)
    /\ NoSchemaRoot(doc[1])
    /\ BlocksIn(doc[1], AnySpace) # << >>
    /\ metadata[1].annotations = << >>

\* C27: a parse_metadata call made after another call has ended returns what
\* the same call returns in a process that has parsed nothing before.
C27_HistoryIndependent ==
    /\ Returned(1) => metadata[1] = parse_metadata(doc[1]).metadata
    /\ pc[1] = "raised" => parse_metadata(doc[1]).raised

\* a document of the 2008 namespace has been parsed after one of the 2006
\* namespace, and its annotations are stored
C27_Witness ==
    /\ Returned(1) /\ Returned(2)
    /\ schema[2] # None /\ schema[2][1].ns = NS_edm_2006
    /\ schema[1] # None /\ schema[1][1].ns = NS_edm_2008
    /\ metadata[1].annotations # << >>

(***************************************************************************)
(* Claims about get_count (SpecQuery).                                     *)
(***************************************************************************)
s_dollar_count == <<"/","$","c","o","u","n","t">>

EndsWithText(s, tail) ==
    Len(s) >= Len(tail) /\ SubSeq(s, Len(s) - Len(tail) + 1, Len(s)) = tail

\* the step is a get_count call
CountCall == last'.op = "get_count"

\* C25: a get_count call, whether its request returns or raises, leaves the
\* count-only mode as it found it, so build_path() and build() return after
\* the call what they returned before it; the request it sends is the one
\* request made in count-only mode (its path ends in /$count).
C25_Step ==
    CountCall =>
        /\ q'.count_only = q.count_only
        /\ build_path(q') = build_path(q)
        /\ build(q') = build(q)
        /\ \A k \in DOMAIN sent' :
               /\ EndsWithText(sent'[k].path, s_dollar_count)
               /\ ~EndsWithText(build_path(q'), s_dollar_count)

C25_CountOnlyRestored == [][C25_Step]_vars

\* a get_count call has sent its request and ended with an exception, and
\* the builder is not in count-only mode
C25_Witness ==
    /\ last.op = "get_count"
    /\ last.err \in {"HTTPError", "ValueError"}
    /\ Len(sent) = 1
    /\ EndsWithText(sent[1].path, s_dollar_count)
    /\ ~q.count_only
    /\ hist.calls > 0

(***************************************************************************)
(* The client.  A call on the SAPODataClient runs to its end in one step;  *)
(* what the auth provider and the server do during the call is its input:  *)
(* srv.auth[k] says whether the k-th authenticate() of the call returns,   *)
(* srv.get[k] and srv.post[k] are the status codes of its k-th GET and     *)
(* POST, srv.head[k] is the x-csrf-token header of its k-th HEAD response  *)
(* ("" when the response has none).  A run r is the client, the log and    *)
(* the exception or response the call has so far.  The log holds the auth  *)
(* calls and the requests in the order they were made; a POST is logged    *)
(* with the x-csrf-token header it carried, a HEAD with the one it got.    *)
(***************************************************************************)
GetStatuses == {200, 401, 500}
PostStatuses == {200, 401, 403}
Tokens == {<< >>, <<"a">>, <<"b">>}
\* what a GET call can meet, and what a POST call can meet
GetServers == [auth : [1..2 -> BOOLEAN], get : [1..2 -> GetStatuses]]
PostServers ==
    [auth : [1..2 -> BOOLEAN], head : [1..2 -> Tokens],
     post : [1..2 -> PostStatuses]]

Event(n, kind, token, status) ==
    [call |-> n, kind |-> kind, token |-> token, status |-> status]
Run(c, l) == [cl |-> c, log |-> l, raised |-> "none", resp |-> None]
Raised(r) == r.raised # "none"

\* self._auth.authenticate(self._session): returns, or raises
authenticate(r, n, ok) ==
    LET called == [r EXCEPT !.log = Append(@, Event(n, "auth", None, 0))]
    IN  IF ok THEN called ELSE [called EXCEPT !.raised = "AuthError"]

\* SAPODataClient._ensure_auth
_ensure_auth(r, n, ok) ==
    IF Raised(r) \/ r.cl.authenticated THEN r
    ELSE LET called == authenticate(r, n, ok)
         IN  IF Raised(called) THEN called
             ELSE [called EXCEPT !.cl.authenticated = TRUE]

\* self._authenticated = False
Unauthenticate(r) ==
    IF Raised(r) THEN r ELSE [r EXCEPT !.cl.authenticated = FALSE]

\* self._session.get(url, ...): the request goes out, the response comes back
session_get(r, n, status) ==
    IF Raised(r) THEN r
    ELSE [r EXCEPT !.log = Append(@, Event(n, "GET", None, status)),
                   !.resp = Some(status)]

\* the retry of _get and get_metadata, a third time when the retry too is
\* answered with 401
Retry401_Again(r, n, srv) ==
    LET again == session_get(_ensure_auth(Unauthenticate(r), n, srv.auth[2]),
                             n, srv.get[2])
    IN  IF ~Raised(again) /\ again.resp = Some(401)
        THEN session_get(_ensure_auth(Unauthenticate(again), n, srv.auth[2]),
                         n, srv.get[2])
        ELSE again

\* if resp.status_code == 401: re-authenticate once and send the request again
Retry401(r, n, srv) ==
    session_get(_ensure_auth(Unauthenticate(r), n, srv.auth[2]), n, srv.get[2])

\* SAPODataClient._get
_get(r, n, srv) ==
    LET first == session_get(_ensure_auth(r, n, srv.auth[1]), n, srv.get[1])
    IN  IF ~Raised(first) /\ first.resp = Some(401)
        THEN Retry401(first, n, srv)
        ELSE first

\* resp.raise_for_status()
raise_for_status(r) ==
    IF Raised(r) THEN r
    ELSE IF r.resp[1] >= 400 THEN [r EXCEPT !.raised = "HTTPError"] ELSE r

\* SAPODataClient.get_metadata, up to the text it hands to parse_metadata
get_metadata(r, n, srv) ==
    LET first == session_get(_ensure_auth(r, n, srv.auth[1]), n, srv.get[1])
    IN  raise_for_status(IF ~Raised(first) /\ first.resp = Some(401)
                         THEN Retry401(first, n, srv)
                         ELSE first)

\* SAPODataClient._fetch_csrf_token, the k-th of the call
_fetch_csrf_token(r, n, ok, token) ==
    LET authed == _ensure_auth(r, n, ok)
    IN  IF Raised(authed) THEN authed
        ELSE [authed EXCEPT !.log = Append(@, Event(n, "HEAD", Some(token), 0)),
                            !.cl.csrf_token = Some(token)]

\* self._session.post(url, json=json, headers=headers) with
\* headers["x-csrf-token"] = self._csrf_token
session_post(r, n, status) ==
    IF Raised(r) THEN r
    ELSE [r EXCEPT !.log = Append(@, Event(n, "POST", r.cl.csrf_token, status)),
                   !.resp = Some(status)]

\* a _post whose retry sends the token of the failed attempt again
_post_Stale(r, n, srv) ==
    LET authed == _ensure_auth(r, n, srv.auth[1])
        ready == IF ~Raised(authed) /\ ~Truthy(authed.cl.csrf_token)
                 THEN _fetch_csrf_token(authed, n, srv.auth[1], srv.head[1])
                 ELSE authed
        first == session_post(ready, n, srv.post[1])
        stale == first.cl.csrf_token
        fetched ==
            IF Raised(first) THEN first
            ELSE IF first.resp = Some(401)
            THEN _fetch_csrf_token(
                     _ensure_auth(Unauthenticate(first), n, srv.auth[2]),
                     n, srv.auth[2], srv.head[2])
            ELSE IF first.resp = Some(403)
            THEN _fetch_csrf_token(first, n, srv.auth[2], srv.head[2])
            ELSE first
    IN  IF Raised(fetched) \/ first.resp \notin {Some(401), Some(403)}
        THEN fetched
        ELSE [fetched EXCEPT
                 !.log = Append(@, Event(n, "POST", stale, srv.post[2])),
                 !.resp = Some(srv.post[2])]

\* SAPODataClient._post
_post(r, n, srv) ==
    LET authed == _ensure_auth(r, n, srv.auth[1])
        ready == IF ~Raised(authed) /\ ~Truthy(authed.cl.csrf_token)
                 THEN _fetch_csrf_token(authed, n, srv.auth[1], srv.head[1])
                 ELSE authed
        first == session_post(ready, n, srv.post[1])
    IN  IF Raised(first) THEN first
        ELSE IF first.resp = Some(401)
        THEN session_post(
                 _fetch_csrf_token(
                     _ensure_auth(Unauthenticate(first), n, srv.auth[2]),
                     n, srv.auth[2], srv.head[2]),
                 n, srv.post[2])
        ELSE IF first.resp = Some(403)
        THEN session_post(_fetch_csrf_token(first, n, srv.auth[2], srv.head[2]),
                          n, srv.post[2])
        ELSE first

\* a call on the client ends: the client and the log are as the call left
\* them, and ret says how it ended
ClientCall(op, r) ==
    /\ cl' = r.cl
    /\ log' = r.log
    /\ ret' = [op |-> op, call |-> ret.call + 1, raised |-> r.raised,
               resp |-> r.resp, rows |-> << >>]
    /\ UNCHANGED <<litVars, filterVars, queryVars, parseVars, ext, viewVars>>

ClientGet ==
    /\ ret.call < MaxClientCalls
    /\ \E srv \in GetServers :
           ClientCall("_get", _get(Run(cl, log), ret.call + 1, srv))

ClientGetMetadata ==
    /\ ret.call < MaxClientCalls
    /\ \E srv \in GetServers :
           ClientCall("get_metadata",
                      get_metadata(Run(cl, log), ret.call + 1, srv))

ClientPost ==
    /\ ret.call < MaxClientCalls
    /\ \E srv \in PostServers :
           ClientCall("_post", _post(Run(cl, log), ret.call + 1, srv))

ClientInit ==
    /\ ClientIdle
    /\ LitIdle /\ FilterIdle /\ QueryIdle /\ ParseIdle /\ ExtIdle /\ ViewIdle

ClientNext == ClientGet \/ ClientGetMetadata \/ ClientPost

SpecClient == ClientInit /\ [][ClientNext]_vars

(***************************************************************************)
(* Claims about the client (SpecClient).  They are read off the log: the   *)
(* events of the last call, in order.                                      *)
(***************************************************************************)
CallEvents(n) == SelectSeq(log, LAMBDA e : e.call = n)
OfKind(es, kind) == SelectSeq(es, LAMBDA e : e.kind = kind)
GetCall == ret.op \in {"_get", "get_metadata"}

\* C28: a client GET (_get, get_metadata) sends its first request only after
\* the auth provider has been invoked; when the first response is 401 it
\* invokes the auth provider once more and sends the request once more, and
\* otherwise it sends nothing more; no call sends more than two requests or
\* invokes the auth provider more than twice; the response the call ends
\* with is the last one received, whatever its status: _get returns it, and
\* get_metadata raises HTTPError on it exactly when its status is 400 or more.
C28_GetRetry ==
    GetCall =>
        LET es == CallEvents(ret.call)
            gets == OfKind(es, "GET")
            auths == OfKind(es, "auth")
        IN  /\ Len(gets) <= 2
            /\ Len(auths) <= 2
            /\ \A i \in DOMAIN log :
                   log[i].kind = "GET" =>
                       \E j \in 1..(i - 1) : log[j].kind = "auth"
            /\ gets # << >> /\ gets[1].status # 401 =>
                   /\ Len(gets) = 1
                   /\ es[Len(es)].kind = "GET"
                   /\ Len(auths) <= 1
            /\ Len(gets) = 2 =>
                   /\ gets[1].status = 401
                   /\ Len(es) >= 3
                   /\ SubSeq(es, Len(es) - 2, Len(es)) =
                          <<gets[1], Event(ret.call, "auth", None, 0), gets[2]>>
            /\ gets # << >> /\ gets[1].status = 401 /\ Len(gets) = 1 =>
                   /\ ret.raised = "AuthError"
                   /\ es[Len(es)].kind = "auth"
            /\ ret.raised # "AuthError" =>
                   /\ gets # << >>
                   /\ ret.resp = Some(gets[Len(gets)].status)
                   /\ ret.raised =
                          IF ret.op = "get_metadata"
                             /\ gets[Len(gets)].status >= 400
                          THEN "HTTPError" ELSE "none"

\* a _get call authenticated, was answered 401, authenticated again, sent the
\* request again and returned the second response, another 401
C28_Witness ==
    /\ ret.op = "_get"
    /\ ret.raised = "none"
    /\ ret.resp = Some(401)
    /\ Len(OfKind(CallEvents(ret.call), "GET")) = 2
    /\ Len(OfKind(CallEvents(ret.call), "auth")) = 2

\* the token the last HEAD before position i of the log fetched: an Optional
FetchedBefore(i) ==
    LET heads == {j \in 1..(i - 1) : log[j].kind = "HEAD"}
    IN  IF heads = {} THEN None
        ELSE log[CHOOSE j \in heads : \A k \in heads : k <= j].token

\* the position in the log of the k-th event of call n
PositionOf(n, k) ==
    CHOOSE i \in DOMAIN log :
        /\ log[i].call = n
        /\ Cardinality({j \in 1..i : log[j].call = n}) = k

\* C29: every POST carries the token of the last HEAD before it, and there
\* is one; a _post call whose client has no token, or an empty one, fetches
\* one before its first POST; answered 401 it invokes the auth provider,
\* fetches a token and sends the POST again, answered 403 it fetches a token
\* and sends the POST again, and otherwise it sends nothing more; no call
\* sends more than two POSTs.
C29_PostToken ==
    /\ \A i \in DOMAIN log :
           log[i].kind = "POST" =>
               /\ FetchedBefore(i) # None
               /\ log[i].token = FetchedBefore(i)
    /\ ret.op = "_post" =>
           LET es == CallEvents(ret.call)
               posts == OfKind(es, "POST")
               start == PositionOf(ret.call, 1)
               auth == Event(ret.call, "auth", None, 0)
           IN  /\ Len(posts) <= 2
               /\ posts # << >> /\ ~Truthy(FetchedBefore(start)) =>
                      \E k \in DOMAIN es :
                          /\ es[k].kind = "HEAD"
                          /\ es[k + 1] = posts[1]
               /\ posts # << >> /\ posts[1].status \notin {401, 403} =>
                      /\ Len(posts) = 1
                      /\ es[Len(es)] = posts[1]
                      /\ ret.resp = Some(posts[1].status)
               /\ Len(posts) = 2 =>
                      /\ posts[1].status \in {401, 403}
                      /\ ret.resp = Some(posts[2].status)
                      /\ es[Len(es)] = posts[2]
                      /\ es[Len(es) - 1].kind = "HEAD"
                      /\ posts[2].token = es[Len(es) - 1].token
                      /\ IF posts[1].status = 401
                         THEN SubSeq(es, Len(es) - 3, Len(es) - 2) =
                                  <<posts[1], auth>>
                         ELSE es[Len(es) - 2] = posts[1]
               /\ Len(posts) = 1 /\ posts[1].status \in {401, 403} =>
                      /\ posts[1].status = 401
                      /\ ret.raised = "AuthError"
                      /\ es[Len(es)] = auth
               /\ ret.raised = "none" => posts # << >>

\* a _post call on a client that had token a sent it, was answered 403,
\* fetched token b and sent the POST again with b
C29_Witness ==
    /\ ret.op = "_post"
    /\ ret.call = 2
    /\ LET es == CallEvents(ret.call)
       IN  /\ Len(es) = 3
           /\ es[1].kind = "POST" /\ es[1].token = Some(<<"a">>)
           /\ es[1].status = 403
           /\ es[2].kind = "HEAD" /\ es[2].token = Some(<<"b">>)
           /\ es[3].kind = "POST" /\ es[3].token = Some(<<"b">>)

(***************************************************************************)
(* Response normalisation.  A parsed JSON body is a value: a dict, a list, *)
(* a string, null or a boolean (a number behaves as a boolean does here).  *)
(* _parse_response returns a value or raises; an operation that Python     *)
(* does not define on the body's type raises TypeError or AttributeError.  *)
(***************************************************************************)
k_value == <<"v","a","l","u","e">>
k_d == <<"d">>
k_results == <<"r","e","s","u","l","t","s">>
k_Id == <<"I","d">>

Returns(v) == [raised |-> "none", rows |-> v]
Raises(e) == [raised |-> e, rows |-> VNone]

\* needle in haystack, on two strings
IsSubstring(needle, haystack) ==
    \E i \in 1..(Len(haystack) - Len(needle) + 1) :
        SubSeq(haystack, i, i + Len(needle) - 1) = needle

\* "key in data" raises TypeError
InRaises(data) == data.kind \in {"NoneType", "bool"}

\* key in data, where it is defined: a key of a dict, an element of a list, a
\* substring of a string
In(key, data) ==
    CASE data.kind = "dict" -> DictHas(data.items, key)
      [] data.kind = "list" ->
            \E i \in DOMAIN data.items : data.items[i][2] = VStr(key)
      [] data.kind = "str" -> IsSubstring(key, data.s)
      [] OTHER -> FALSE

\* SAPODataClient._parse_response
_parse_response(data) ==
    IF InRaises(data) THEN Raises("TypeError")
    ELSE IF In(k_value, data)
    THEN IF data.kind # "dict" THEN Raises("TypeError")
         ELSE LET value == DictGet(data.items, k_value)
              IN  IF value.kind = "list" THEN Returns(value)
                  ELSE IF value.kind = "dict" THEN Returns(VList(<<value>>))
                  ELSE Returns(VList(<< >>))
    ELSE IF data.kind # "dict" THEN Raises("AttributeError")
    ELSE LET d == ValueGetOr(data, k_d, VDict(<< >>))
         IN  IF d.kind = "dict" /\ DictHas(d.items, k_results)
             THEN Returns(DictGet(d.items, k_results))
             ELSE IF d.kind = "dict" /\ d.items # << >>
             THEN Returns(VList(<<d>>))
             ELSE Returns(VList(<< >>))

\* the rows a service returns, and its pages of at most MaxRows rows
Row(id) == VDict(<<<<k_Id, VStr(<<id>>)>>>>)
Rows == {Row("1"), Row("2")}
RowLists ==
    UNION {{VList(rows) : rows \in [1..n -> Rows]} : n \in 0..MaxRows}
Scalars == {VNone, VBool(TRUE), VStr(<<"x">>), VStr(k_value)}

\* what a body can hold under "value", under "d" or under "results"
Inner == RowLists \cup Rows \cup Scalars \cup {VDict(<< >>)}

\* the bodies: the two envelopes around every inner value, both at once, a
\* dict with neither key, and bodies that are not a dict
Bodies ==
    {VDict(<<<<k_value, v>>>>) : v \in Inner}
    \cup {VDict(<<<<k_d, v>>>>) : v \in Inner}
    \cup {VDict(<<<<k_d, VDict(<<<<k_results, v>>>>)>>>>) : v \in Inner}
    \cup {VDict(<<<<k_d, VDict(<<<<k_results, v>>, <<k_Id, VStr(<<"1">>)>>>>)>>>>) :
              v \in Scalars}
    \cup {VDict(<<<<k_d, Row("1")>>, <<k_value, v>>>>) : v \in Rows \cup Scalars}
    \cup {VDict(<< >>), VDict(<<<<k_Id, VStr(<<"1">>)>>>>)}
    \cup RowLists \cup Scalars \cup {VList(<<VStr(k_value)>>)}

\* _parse_response is called on the body
ParseResponse ==
    /\ pr.pc = "start"
    /\ pr' = [pr EXCEPT !.pc = "done",
                        !.raised = _parse_response(pr.data).raised,
                        !.rows = _parse_response(pr.data).rows]
    /\ UNCHANGED <<litVars, filterVars, queryVars, parseVars, ext, clientVars, an>>

ResponseInit ==
    /\ \E data \in Bodies : pr = [NoPr EXCEPT !.data = data, !.pc = "start"]
    /\ an = NoAn
    /\ LitIdle /\ FilterIdle /\ QueryIdle /\ ParseIdle /\ ExtIdle /\ ClientIdle

ResponseNext == ParseResponse

SpecResponse == ResponseInit /\ [][ResponseNext]_vars

(***************************************************************************)
(* Auto-pagination.  _execute_all runs to its end in one step; served[k]   *)
(* is what the server answers to the k-th fetch of the call: a status and  *)
(* the parsed body.  The auth provider returns and no fetch is answered    *)
(* 401 here (SpecClient covers that).                                      *)
(***************************************************************************)
k_odata_nextLink ==
    <<"@","o","d","a","t","a",".","n","e","x","t","L","i","n","k">>
k___next == <<"_","_","n","e","x","t">>
s_first == <<"/","s","a","p","/","s","r","v","/","O","r","d","e","r","s">>

\* the server of one fetch, as _get meets it
Answering(status) ==
    [auth |-> [k \in 1..2 |-> TRUE], get |-> [k \in 1..2 |-> status]]

\* all_results.extend(value): the elements of a list, the characters of a
\* string, the keys of a dict; None and booleans are not iterable
extend(all, value) ==
    CASE value.kind = "list" -> Returns(VList(ListValues(all) \o ListValues(value)))
      [] value.kind = "str" ->
            Returns(VList(ListValues(all)
                          \o [i \in 1..Len(value.s) |-> VStr(<<value.s[i]>>)]))
      [] value.kind = "dict" ->
            Returns(VList(ListValues(all)
                          \o [i \in 1..Len(value.items) |-> VStr(value.items[i][1])]))
      [] OTHER -> Raises("TypeError")

\* a next link that reads only the V4 key
NextLink_V4Only(data) == ValueGet(data, k_odata_nextLink)

\* next_url after the V4 key and the V2 fallback; data is a dict here
NextLink(data) ==
    LET next_url == ValueGet(data, k_odata_nextLink)
        d == ValueGetOr(data, k_d, VDict(<< >>))
    IN  IF ValueTruthy(next_url) THEN next_url
        ELSE IF d.kind = "dict" THEN ValueGet(d, k___next)
        ELSE next_url

\* the iterations of the loop that are left: st holds the run, the url to
\* fetch, all_results and the urls fetched so far
RECURSIVE Pages(_, _, _, _)
Pages(st, n, left, served) ==
    IF left = 0 \/ Raised(st.r) THEN st
    ELSE LET k == Len(st.urls) + 1
             got == raise_for_status(_get(st.r, n, Answering(served[k].status)))
             fetched == [st EXCEPT !.r = got, !.urls = Append(@, st.url)]
             data == served[k].data
             parsed == _parse_response(data)
             extended == extend(st.all, parsed.rows)
             next_url == NextLink(data)
         IN  IF Raised(got) THEN fetched
             ELSE IF Raised(parsed)
             THEN [fetched EXCEPT !.r.raised = parsed.raised]
             ELSE IF Raised(extended)
             THEN [fetched EXCEPT !.r.raised = extended.raised]
             ELSE IF ~ValueTruthy(next_url)
             THEN [fetched EXCEPT !.all = extended.rows]
             ELSE Pages([fetched EXCEPT !.all = extended.rows,
                                        !.url = next_url.s],
                        n, left - 1, served)

\* SAPODataClient._execute_all, from the url of the first page on
_execute_all(r, n, url, max_pages, served) ==
    Pages([r |-> r, url |-> url, all |-> VList(<< >>), urls |-> << >>],
          n, max_pages, served)

\* the pages a service serves: either envelope around no row, one row or two,
\* with no next link, an empty one or a link; a V4 page whose link is under
\* d; a page whose results are null; and an error status
Links == {VStr(<< >>), VStr(s_nextLink)}
PageRows == {VList(<< >>), VList(<<Row("1")>>), VList(<<Row("2"), Row("1")>>)}
V4Page(rows, tail) == VDict(<<<<k_value, rows>>>> \o tail)
V2Page(rows, tail) == VDict(<<<<k_d, VDict(<<<<k_results, rows>>>> \o tail)>>>>)
PageBodies ==
    {V4Page(rows, << >>) : rows \in PageRows}
    \cup {V4Page(rows, <<<<k_odata_nextLink, l>>>>) : rows \in PageRows, l \in Links}
    \cup {V2Page(rows, << >>) : rows \in PageRows}
    \cup {V2Page(rows, <<<<k___next, l>>>>) : rows \in PageRows, l \in Links}
    \cup {V4Page(VList(<<Row("1")>>),
                 <<<<k_odata_nextLink, VStr(<< >>)>>,
                   <<k_d, VDict(<<<<k___next, VStr(s_nextLink)>>>>)>>>>),
          V2Page(VNone, <<<<k___next, VStr(s_nextLink)>>>>)}
Served ==
    {[status |-> 200, data |-> data] : data \in PageBodies}
    \cup {[status |-> 500, data |-> VDict(<< >>)]}

\* Query.execute_all(max_pages) on a query with a client: the pages are
\* fetched and the call returns or raises
ClientExecuteAll ==
    /\ ret.op = "none"
    /\ \E max_pages \in 0..MaxPages :
       \E served \in [1..max_pages -> Served] :
           LET st == _execute_all(Run(cl, log), ret.call + 1, s_first,
                                  max_pages, served)
           IN  /\ cl' = st.r.cl
               /\ log' = st.r.log
               /\ ret' = [op |-> "_execute_all", call |-> ret.call + 1,
                          raised |-> st.r.raised, resp |-> st.r.resp,
                          rows |-> ListValues(st.all), urls |-> st.urls,
                          max_pages |-> max_pages, served |-> served]
    /\ UNCHANGED <<litVars, filterVars, queryVars, parseVars, ext, viewVars>>

PagesNext == ClientExecuteAll

SpecPages == ClientInit /\ [][PagesNext]_vars

(***************************************************************************)
(* The explorer's field analysis.  A Property is modelled by the fields    *)
(* the key and required classification reads, name and nullable, with its  *)
(* label and filterable flag; its other fields keep their defaults, for    *)
(* which _prop_attrs adds no tag.  The analysis is modelled by its Keys    *)
(* and Required lists and by the Attributes column of its field table.     *)
(***************************************************************************)
s_KEY == <<"K","E","Y">>
s_required == <<"r","e","q","u","i","r","e","d">>
s_no_filter == <<"n","o","-","f","i","l","t","e","r">>
s__ac == <<"_","a","c">>
s__oc == <<"_","o","c">>
n_Id == <<"I","d">>
n_Name == <<"N","a","m","e">>
n_Id_ac == <<"I","d","_","a","c">>
n_Missing == <<"M","i","s","s","i","n","g">>

\* name.endswith(suffix)
endswith(name, suffix) ==
    /\ Len(name) >= Len(suffix)
    /\ SubSeq(name, Len(name) - Len(suffix) + 1, Len(name)) = suffix

\* explorer._is_control_field
_is_control_field(prop) == endswith(prop.name, s__ac) \/ endswith(prop.name, s__oc)

\* the backquote that _prop_short_desc puts around a name; a TLA+ string
\* cannot hold one, and no name holds a quote
s_backquote == <<"'">>

\* explorer._prop_short_desc
_prop_short_desc(prop) ==
    IF prop.label # << >>
    THEN s_backquote \o prop.name \o s_backquote \o <<" ", "(">>
         \o prop.label \o <<")">>
    ELSE s_backquote \o prop.name \o s_backquote

\* name in et.key_properties
IsKey(prop, et) == \E i \in DOMAIN et.key_properties : et.key_properties[i] = prop.name

\* explorer._prop_attrs
_prop_attrs(prop, et) ==
    Join(<<",", " ">>,
         (IF IsKey(prop, et) THEN <<s_KEY>> ELSE << >>)
         \o (IF ~prop.nullable THEN <<s_required>> ELSE << >>)
         \o (IF ~prop.filterable THEN <<s_no_filter>> ELSE << >>))

\* props = [p for p in et.properties if not _is_control_field(p)]
AnalysedProps(et) == SelectSeq(et.properties, LAMBDA p : ~_is_control_field(p))

\* explorer._analyze_entity_type: the Keys list, the Required list and the
\* rows of the field table
_analyze_entity_type(et) ==
    LET props == AnalysedProps(et)
        described(ps) == [i \in 1..Len(ps) |-> _prop_short_desc(ps[i])]
    IN  [keys |-> described(SelectSeq(props, LAMBDA p : IsKey(p, et))),
         required |->
             described(SelectSeq(props,
                                 LAMBDA p : ~IsKey(p, et) /\ ~p.nullable)),
         attrs |-> [i \in 1..Len(props) |->
                       [name |-> props[i].name,
                        attrs |-> _prop_attrs(props[i], et)]]]

\* the entity types analysed: any of three properties, one of them a control
\* field, each nullable or not and filterable or not, under five keys
PropertyChoices(name, label) ==
    {<< >>} \cup
    {<<[name |-> name, nullable |-> n, label |-> label, filterable |-> f]>> :
         n \in BOOLEAN, f \in BOOLEAN}
AnalysedTypes ==
    {[name |-> <<"O">>, properties |-> a \o b \o c, key_properties |-> k] :
         a \in PropertyChoices(n_Id, <<"N","o">>),
         b \in PropertyChoices(n_Name, << >>),
         c \in PropertyChoices(n_Id_ac, << >>),
         k \in {<< >>, <<n_Id>>, <<n_Id, n_Name>>, <<n_Id_ac>>, <<n_Missing>>}}

AnalyzeEntityType ==
    /\ an.pc = "start"
    /\ an' = [an EXCEPT !.pc = "done",
                        !.keys = _analyze_entity_type(an.et).keys,
                        !.required = _analyze_entity_type(an.et).required,
                        !.attrs = _analyze_entity_type(an.et).attrs]
    /\ UNCHANGED <<litVars, filterVars, queryVars, parseVars, ext, clientVars, pr>>

ExploreInit ==
    /\ \E et \in AnalysedTypes : an = [NoAn EXCEPT !.et = et, !.pc = "start"]
    /\ pr = NoPr
    /\ LitIdle /\ FilterIdle /\ QueryIdle /\ ParseIdle /\ ExtIdle /\ ClientIdle

ExploreNext == AnalyzeEntityType

SpecExplore == ExploreInit /\ [][ExploreNext]_vars

(***************************************************************************)
(* Claims about response normalisation (SpecResponse)                      *)
(***************************************************************************)
\* the value a dict body holds under a key: an Optional
Under(data, key) ==
    IF data.kind = "dict" /\ DictHas(data.items, key)
    THEN Some(DictGet(data.items, key)) ELSE None
HoldsKind(opt, kind) == opt # None /\ opt[1].kind = kind

\* the rows the two envelopes stand for: the list or the single object under
\* value; failing that the list under d.results; failing that the object d
\* when it is not empty and has no results; otherwise none
Normalised(data) ==
    LET value == Under(data, k_value)
        d == Under(data, k_d)
        results == IF HoldsKind(d, "dict") THEN Under(d[1], k_results) ELSE None
    IN  IF HoldsKind(value, "list") THEN value[1]
        ELSE IF HoldsKind(value, "dict") THEN VList(<<value[1]>>)
        ELSE IF value # None THEN VList(<< >>)
        ELSE IF HoldsKind(results, "list") THEN results[1]
        ELSE IF HoldsKind(d, "dict") /\ results = None /\ d[1].items # << >>
        THEN VList(<<d[1]>>)
        ELSE VList(<< >>)

\* C24: for every body, _parse_response returns a list and never raises: the
\* list under value, or the single object under value as a one-row list, or
\* the list under d.results, or the object d as a one-row list, and the
\* empty list for any other body.
C24_Normalises ==
    pr.pc = "done" =>
        /\ pr.raised = "none"
        /\ pr.rows.kind = "list"
        /\ pr.rows = Normalised(pr.data)

\* the body {"d": {"results": null}} was normalised
C24_Witness ==
    /\ pr.pc = "done"
    /\ pr.data = VDict(<<<<k_d, VDict(<<<<k_results, VNone>>>>)>>>>)

(***************************************************************************)
(* Claims about auto-pagination (SpecPages)                                *)
(***************************************************************************)
\* the link a page carries: a non-empty string under @odata.nextLink, or
\* failing that under __next of d; an Optional
LinkOf(data) ==
    LET v4 == Under(data, k_odata_nextLink)
        d == Under(data, k_d)
        v2 == IF HoldsKind(d, "dict") THEN Under(d[1], k___next) ELSE None
    IN  IF HoldsKind(v4, "str") /\ v4[1].s # << >> THEN Some(v4[1].s)
        ELSE IF HoldsKind(v2, "str") /\ v2[1].s # << >> THEN Some(v2[1].s)
        ELSE None

\* the rows of the first n pages served, in order
RECURSIVE RowsOfPages(_, _)
RowsOfPages(served, n) ==
    IF n = 0 THEN << >>
    ELSE RowsOfPages(served, n - 1) \o ListValues(Normalised(served[n].data))

\* C30: execute_all ends after at most max_pages fetches, whatever links the
\* pages carry; it fetches page k+1 only when page k was served with a next
\* link (V4 or V2), and then by that link; when it returns it has stopped at
\* the first page without a link or at max_pages, and returns the rows of
\* the pages it fetched, in fetch order.
C30_Pagination ==
    ret.op = "_execute_all" =>
        LET gets == OfKind(CallEvents(ret.call), "GET")
            n == Len(gets)
            served == ret.served
        IN  /\ n <= ret.max_pages
            /\ Len(ret.urls) = n
            /\ n > 0 => ret.urls[1] = s_first
            /\ \A k \in 1..(n - 1) :
                   /\ gets[k].status = 200
                   /\ LinkOf(served[k].data) = Some(ret.urls[k + 1])
            /\ ret.raised = "none" =>
                   /\ n = ret.max_pages \/ LinkOf(served[n].data) = None
                   /\ ret.rows = RowsOfPages(served, n)

\* execute_all with max_pages pages to go met a link on every page, fetched
\* max_pages pages and returned the rows of all of them
C30_Witness ==
    /\ ret.op = "_execute_all"
    /\ ret.raised = "none"
    /\ ret.max_pages = MaxPages
    /\ Len(OfKind(CallEvents(ret.call), "GET")) = MaxPages
    /\ \A k \in 1..MaxPages : LinkOf(ret.served[k].data) # None
    /\ Len(ret.rows) >= MaxPages

\* execute_all stopped at a first page without a link, with pages to go
C30_StopsEarly ==
    /\ ret.op = "_execute_all"
    /\ ret.raised = "none"
    /\ ret.max_pages = MaxPages
    /\ Len(OfKind(CallEvents(ret.call), "GET")) = 1
    /\ ret.rows # << >>

(***************************************************************************)
(* Claims about the field analysis (SpecExplore)                           *)
(***************************************************************************)
Listed(prop, list) == \E i \in DOMAIN list : list[i] = _prop_short_desc(prop)
Tagged(prop, tag) ==
    \E i \in DOMAIN an.attrs :
        /\ an.attrs[i].name = prop.name
        /\ IsSubstring(tag, an.attrs[i].attrs)
ClassifiedKey(prop) == Listed(prop, an.keys) \/ Tagged(prop, s_KEY)
ClassifiedRequired(prop) == Listed(prop, an.required) \/ Tagged(prop, s_required)

\* C23: the analysis classifies every property of the entity type: as key
\* when its name is in key_properties, as required when it is not nullable
\* and not a key; and it classifies no property as both.
C23_Classified ==
    an.pc = "done" =>
        \A i \in DOMAIN an.et.properties :
            LET prop == an.et.properties[i]
            IN  /\ IsKey(prop, an.et) => ClassifiedKey(prop)
                /\ ~IsKey(prop, an.et) /\ ~prop.nullable =>
                       ClassifiedRequired(prop)
                /\ ~(ClassifiedKey(prop) /\ ClassifiedRequired(prop))

\* the Keys and Required lists alone name no property twice
C23_ListsExclusive ==
    an.pc = "done" =>
        \A i \in DOMAIN an.et.properties :
            ~(Listed(an.et.properties[i], an.keys)
              /\ Listed(an.et.properties[i], an.required))

(***************************************************************************)
(* C26: reading a filter text with the protocol's precedence.  The reader  *)
(* splits at the or and the and operators that stand outside parentheses   *)
(* and outside quoted strings, or before and; not applies to the primary   *)
(* that follows it; a primary in parentheses is read as its content.  What *)
(* it read is written with one bracket pair per operator: {x|y} for or,    *)
(* [x&y&z] for a chain of and, !x for not, and a leaf as it stands.        *)
(***************************************************************************)
s_or == <<" ","o","r"," ">>
s_and == <<" ","a","n","d"," ">>
s_not == <<"n","o","t"," ">>

\* sep stands at position i of s
StandsAt(s, sep, i) ==
    i + Len(sep) - 1 <= Len(s) /\ SubSeq(s, i, i + Len(sep) - 1) = sep

\* the quotes of s, and the parentheses of s that stand outside quoted
\* strings (a quote doubled inside a string opens and closes nothing)
QuotesOf(s) == {j \in DOMAIN s : s[j] = "'"}
OutsideQuotes(s, i) == Cardinality({j \in QuotesOf(s) : j < i}) % 2 = 0
ParensOf(s, c) == {j \in DOMAIN s : s[j] = c /\ OutsideQuotes(s, j)}

\* the positions where sep stands outside parentheses and quotes
TopPositions(s, sep) ==
    LET opens == ParensOf(s, "(")
        closes == ParensOf(s, ")")
    IN  {i \in DOMAIN s :
            /\ StandsAt(s, sep, i)
            /\ OutsideQuotes(s, i)
            /\ Cardinality({j \in opens : j < i})
                   = Cardinality({j \in closes : j < i})}

\* the operands of the operator sep at the top level of s
SplitTop(s, sep) ==
    LET tops == TopPositions(s, sep)
        nth(k) == CHOOSE i \in tops : Cardinality({j \in tops : j < i}) = k - 1
        from(k) == IF k = 1 THEN 1 ELSE nth(k - 1) + Len(sep)
        to(k) == IF k = Cardinality(tops) + 1 THEN Len(s) ELSE nth(k) - 1
    IN  [k \in 1..(Cardinality(tops) + 1) |-> SubSeq(s, from(k), to(k))]

\* s is one parenthesised expression: the parenthesis it opens with is
\* closed by its last character
Wrapped(s) ==
    LET opens == ParensOf(s, "(")
        closes == ParensOf(s, ")")
        balanced == {c \in closes :
                        Cardinality({j \in opens : j < c})
                            = Cardinality({j \in closes : j <= c})}
    IN  /\ s # << >> /\ s[1] = "("
        /\ balanced # {}
        /\ \A c \in balanced : c >= Len(s)

\* what was read is a chain of and
IsAndChain(x) == x # << >> /\ x[1] = "["
Links_(x) == IF IsAndChain(x) THEN SubSeq(x, 2, Len(x) - 1) ELSE x

\* a conjunction of what was read: its operands' own chains are joined
Conj(xs) == <<"[">> \o Join(<<"&">>, [i \in DOMAIN xs |-> Links_(xs[i])]) \o <<"]">>
Disj(xs) == <<"{">> \o Join(<<"|">>, xs) \o <<"}">>
Neg(x) == <<"!">> \o x

RECURSIVE ReadOr(_), ReadAnd(_), ReadNot(_)
ReadOr(s) ==
    LET parts == SplitTop(s, s_or)
    IN  IF Len(parts) = 1 THEN ReadAnd(s)
        ELSE Disj([i \in DOMAIN parts |-> ReadAnd(parts[i])])
ReadAnd(s) ==
    LET parts == SplitTop(s, s_and)
    IN  IF Len(parts) = 1 THEN ReadNot(s)
        ELSE Conj([i \in DOMAIN parts |-> ReadNot(parts[i])])
ReadNot(s) ==
    IF StandsAt(s, s_not, 1) THEN Neg(ReadNot(SubSeq(s, 5, Len(s))))
    ELSE IF Wrapped(s) THEN ReadOr(SubSeq(s, 2, Len(s) - 1))
    ELSE s

\* C26: the text of every expression built by the factory and &, | and ~
\* reads as it was built: a leaf as one operand, a & b as the conjunction of
\* what a and b read as, a | b as the disjunction of the two with each
\* operand whole, and ~a as the negation of what a reads as.
C26_ReadsAsBuilt ==
    /\ fop.op = "leaf" => ReadOr(exprs[fop.res]) = exprs[fop.res]
    /\ fop.op = "and" =>
           ReadOr(exprs[fop.res]) = Conj(<<ReadOr(fop.atext), ReadOr(fop.btext)>>)
    /\ fop.op = "or" =>
           ReadOr(exprs[fop.res]) = Disj(<<ReadOr(fop.atext), ReadOr(fop.btext)>>)
    /\ fop.op = "not" => ReadOr(exprs[fop.res]) = Neg(ReadOr(fop.atext))

\* a conjunction was built whose right operand is a disjunction, and its
\* text reads as the conjunction of the left operand and that disjunction
C26_Witness ==
    /\ fop.op = "and"
    /\ ReadOr(fop.btext) # << >> /\ ReadOr(fop.btext)[1] = "{"
    /\ ReadOr(fop.atext)[1] \notin {"{", "[", "!"}
    /\ ReadOr(exprs[fop.res]) =
           <<"[">> \o fop.atext \o <<"&">> \o ReadOr(fop.btext) \o <<"]">>

\* a negation of a disjunction was built
C26_NegatedDisjunction ==
    /\ fop.op = "not"
    /\ ReadOr(exprs[fop.res])[1] = "!" /\ ReadOr(exprs[fop.res])[2] = "{"

=============================================================================
